---- MODULE Spec2Model ----
(***************************************************************************)
(* Page-audio synchronization engine (src/src/utils/pageAudioSync.ts).     *)
(*                                                                         *)
(* The model follows the class PageAudioSynchronizer: its fields are the   *)
(* variables, each public method is one action, and the callback that      *)
(* navigateToPage hands to setTimeout is the action DebounceFire.          *)
(* JavaScript runs one task at a time, so a method body, and every         *)
(* promise continuation it triggers, is one atomic step; the only          *)
(* macrotask boundary in the class is the 300 ms timer.                    *)
(***************************************************************************)
EXTENDS Integers, Sequences, FiniteSets, TLC

(***************************************************************************)
(* Bounds of the model.                                                    *)
(***************************************************************************)
MaxPages == 3
MaxSentences == 2
MaxTimers == 2
MaxMapPages == 5
MaxMapSentences == 6
MaxErrors == 2
MaxFreeErrors == 2
MaxLogErrors == 102
MaxSuspended == 2
MaxActions == 3
MaxFragments == 5

(***************************************************************************)
(* Strings are sequences of characters; a sentence is a string.           *)
(***************************************************************************)
SP == " "
TAB == "\t"
Whitespace == {SP, TAB}
Blank == <<SP>>
TwoWords == <<"a", SP, "b">>
SentenceValues == {Blank, TwoWords}

Min(a, b) == IF a <= b THEN a ELSE b
Max(a, b) == IF a >= b THEN a ELSE b

\* Mutant: the quotient is rounded down.
Floor(a, b) == a \div b

\* Math.ceil(a / b) for a >= 0 and b > 0.
Ceil(a, b) == IF a % b = 0 THEN a \div b ELSE (a \div b) + 1

\* Array.prototype.slice(startIndex, endIndex) with 0-based, end-exclusive
\* indices that are not negative.
Slice(arr, startIndex, endIndex) ==
  LET e == Min(endIndex, Len(arr))
  IN  IF startIndex >= e THEN << >> ELSE SubSeq(arr, startIndex + 1, e)

\* Array.prototype.join(' ').
RECURSIVE Join(_)
Join(arr) ==
  IF Len(arr) = 0 THEN << >>
  ELSE IF Len(arr) = 1 THEN arr[1]
  ELSE arr[1] \o <<SP>> \o Join(Tail(arr))

\* String.prototype.trim().
RECURSIVE TrimLeft(_)
TrimLeft(s) ==
  IF Len(s) > 0 /\ s[1] \in Whitespace THEN TrimLeft(Tail(s)) ELSE s

RECURSIVE TrimRight(_)
TrimRight(s) ==
  IF Len(s) > 0 /\ s[Len(s)] \in Whitespace
  THEN TrimRight(SubSeq(s, 1, Len(s) - 1))
  ELSE s

Trim(s) == TrimRight(TrimLeft(s))

\* text.trim().split(/\s+/).filter(word => word.length > 0).length :
\* the number of maximal runs of non-blank characters.
countWords(text) ==
  Cardinality({i \in 1..Len(text) :
                 text[i] \notin Whitespace /\ (i = 1 \/ text[i - 1] \in Whitespace)})

\* A float that is a ratio of two integers, in lowest terms so that equal
\* floats are equal values.
RECURSIVE GCD(_, _)
GCD(a, b) == IF b = 0 THEN a ELSE GCD(b, a % b)

Ratio(a, b) ==
  LET g == GCD(IF a < 0 THEN -a ELSE a, b)
  IN  [num |-> a \div g, den |-> b \div g]

Zero == [num |-> 0, den |-> 1]
One == [num |-> 1, den |-> 1]

\* Math.max(0, Math.min(1, x)).
Clamp01(x) ==
  IF x.num < 0 THEN Zero ELSE IF x.num > x.den THEN One ELSE x

\* A number passed as pageNumber: n when frac is FALSE, n + 0.5 otherwise.
Whole(k) == [n |-> k, frac |-> FALSE]
Half(k) == [n |-> k, frac |-> TRUE]

\* Number.isInteger(x).
NumberIsInteger(x) == ~x.frac

\* x >= k and x <= k for a number x and an integer k.
NumGe(x, k) == x.n >= k
NumLe(x, k) == IF x.frac THEN x.n < k ELSE x.n <= k

(***************************************************************************)
(* Map<K, V> is a function whose domain is the set of keys.               *)
(***************************************************************************)
EmptyMap == << >>
MapSet(m, k, v) == [x \in DOMAIN m \cup {k} |-> IF x = k THEN v ELSE m[x]]
MapHas(m, k) == k \in DOMAIN m

(***************************************************************************)
(* Fields of PageAudioSynchronizer.                                       *)
(***************************************************************************)
VARIABLES
  pageMap,            \* Map<number, PageMapping>
  sentenceToPageMap,  \* Map<number, number>
  playbackState,      \* PlaybackState
  debounceTimer,      \* handle of the last timer set, 0 for null
  timers,             \* the timers that are set and have not fired
  abandoned,          \* promises left pending for ever by the last step
  lastCall,           \* the operation of the last step and its arguments
  notified,           \* snapshots passed to onStateChange by the last step
  reported,           \* messages passed to onError by the last step
  settled             \* promises of navigateToPage settled by the last step

(***************************************************************************)
(* Fields of ErrorHandler, the handleError calls that are suspended, and  *)
(* what the last step passed to the callbacks and returned.               *)
(***************************************************************************)
VARIABLES
  errorLog,           \* ErrorInfo[]
  clock,              \* Date.now(): the number of handleError calls so far
  recovering,         \* handleError calls suspended at "await attemptRecovery"
  onErrorCalls,       \* arguments of onError in the last step
  onRecoveryCalls,    \* arguments of onRecovery in the last step
  returned            \* values handleError returned in the last step

(***************************************************************************)
(* Fields of PerformanceOptimizer and the lazyLoadPage calls that are     *)
(* suspended at "await loader(pageNumber)".                                *)
(***************************************************************************)
VARIABLES
  config,             \* OptimizationConfig
  metrics,            \* PerformanceMetrics
  pageCache,          \* Map<number, any>: the entries in insertion order
  loading,            \* lazyLoadPage calls suspended at the loader
  optimizing          \* number of optimizeDocumentProcessing calls suspended
                      \* at "await this.estimateDocumentSize(pdfDocument)"

synchronizerVars == <<pageMap, sentenceToPageMap, playbackState, debounceTimer,
                      timers, abandoned, notified, reported, settled>>

handlerVars == <<errorLog, clock, recovering, onErrorCalls, onRecoveryCalls,
                 returned>>

optimizerVars == <<config, metrics, pageCache, loading, optimizing>>

vars == <<pageMap, sentenceToPageMap, playbackState, debounceTimer, timers,
          abandoned, lastCall, notified, reported, settled, errorLog, clock,
          recovering, onErrorCalls, onRecoveryCalls, returned, config,
          metrics, pageCache, loading, optimizing>>

\* Mutant: the blocks are dealt from the last page backwards.
calculateSentencesForPageFromEnd(sentences, pageNumber, totalPages, avgSentencesPerPage) ==
  LET startIndex == (totalPages - pageNumber) * avgSentencesPerPage
      endIndex == Min(startIndex + avgSentencesPerPage, Len(sentences))
  IN  Slice(sentences, startIndex, endIndex)

\* Mutant: the end index of the slice is taken as inclusive.
calculateSentencesForPageShort(sentences, pageNumber, totalPages, avgSentencesPerPage) ==
  LET startIndex == (pageNumber - 1) * avgSentencesPerPage
      endIndex == Min(startIndex + avgSentencesPerPage, Len(sentences)) - 1
  IN  Slice(sentences, startIndex, endIndex)

\* private calculateSentencesForPage(sentences, pageNumber, totalPages, avg)
calculateSentencesForPage(sentences, pageNumber, totalPages, avgSentencesPerPage) ==
  LET startIndex == (pageNumber - 1) * avgSentencesPerPage
      endIndex == Min(startIndex + avgSentencesPerPage, Len(sentences))
  IN  Slice(sentences, startIndex, endIndex)

\* private async detectImages(pageData)
detectImages == FALSE

\* Mutant: the sentence range starts at the start of the page's block.
NewPageMappingAtBlock(sentences, nPages, pageNum, avg, curChar, curSentence, method) ==
  LET sentencesForPage == calculateSentencesForPage(sentences, pageNum, nPages, avg)
      pageText == Join(sentencesForPage)
      blockStart == (pageNum - 1) * avg
  IN  [pageNumber |-> pageNum,
       startCharIndex |-> curChar,
       endCharIndex |-> curChar + Len(pageText) - 1,
       startSentenceIndex |-> blockStart,
       endSentenceIndex |-> Min(blockStart + Len(sentencesForPage) - 1,
                                Len(sentences) - 1),
       wordCount |-> countWords(pageText),
       textContent |-> pageText,
       isEmpty |-> Len(Trim(pageText)) = 0,
       hasImages |-> detectImages,
       extractionMethod |-> method]

\* Mutant: the sentence range of a page is never empty.
NewPageMappingOfOneSentence(sentences, nPages, pageNum, avg, curChar, curSentence, method) ==
  LET sentencesForPage == calculateSentencesForPage(sentences, pageNum, nPages, avg)
      pageText == Join(sentencesForPage)
  IN  [pageNumber |-> pageNum,
       startCharIndex |-> curChar,
       endCharIndex |-> curChar + Len(pageText) - 1,
       startSentenceIndex |-> curSentence,
       endSentenceIndex |-> Max(curSentence,
                                Min(curSentence + Len(sentencesForPage) - 1,
                                    Len(sentences) - 1)),
       wordCount |-> countWords(pageText),
       textContent |-> pageText,
       isEmpty |-> Len(Trim(pageText)) = 0,
       hasImages |-> detectImages,
       extractionMethod |-> method]

\* The PageMapping object literal of one loop iteration.
NewPageMapping(sentences, nPages, pageNum, avg, curChar, curSentence, method) ==
  LET sentencesForPage == calculateSentencesForPage(sentences, pageNum, nPages, avg)
      pageText == Join(sentencesForPage)
  IN  [pageNumber |-> pageNum,
       startCharIndex |-> curChar,
       endCharIndex |-> curChar + Len(pageText) - 1,
       startSentenceIndex |-> curSentence,
       endSentenceIndex |-> Min(curSentence + Len(sentencesForPage) - 1,
                                Len(sentences) - 1),
       wordCount |-> countWords(pageText),
       textContent |-> pageText,
       isEmpty |-> Len(Trim(pageText)) = 0,
       hasImages |-> detectImages,
       extractionMethod |-> method]

\* for (let i = startSentenceIndex; i <= endSentenceIndex; i++)
\*   this.sentenceToPageMap.set(i, pageNum)
MapSentences(s2p, pm) ==
  [i \in DOMAIN s2p \cup (pm.startSentenceIndex..pm.endSentenceIndex) |->
     IF i \in pm.startSentenceIndex..pm.endSentenceIndex
     THEN pm.pageNumber ELSE s2p[i]]

\* The loop "for (let pageNum = 1; pageNum <= pdfPages.length; pageNum++)"
\* of initializePageMappings, from pageNum on; acc holds the two maps and
\* the running currentCharIndex and currentSentenceIndex.
RECURSIVE PageLoop(_, _, _, _, _, _)
PageLoop(sentences, nPages, avg, method, pageNum, acc) ==
  IF pageNum > nPages THEN acc
  ELSE LET pm == NewPageMapping(sentences, nPages, pageNum, avg,
                                acc.currentCharIndex, acc.currentSentenceIndex,
                                method)
       IN  PageLoop(sentences, nPages, avg, method, pageNum + 1,
                    [pageMap |-> MapSet(acc.pageMap, pageNum, pm),
                     sentenceToPageMap |-> MapSentences(acc.sentenceToPageMap, pm),
                     currentCharIndex |-> pm.endCharIndex + 1,
                     currentSentenceIndex |-> pm.endSentenceIndex + 1])

\* The two maps that initializePageMappings builds for nPages pages; with
\* no page the loop body never runs and the quotient is not used.
BuildMaps(nPages, sentences, method) ==
  LET avgSentencesPerPage == IF nPages = 0 THEN 0 ELSE Ceil(Len(sentences), nPages)
  IN  PageLoop(sentences, nPages, avgSentencesPerPage, method, 1,
               [pageMap |-> EmptyMap, sentenceToPageMap |-> EmptyMap,
                currentCharIndex |-> 0, currentSentenceIndex |-> 0])

(***************************************************************************)
(* Timers and promises.  setTimeout returns a handle; timers maps the     *)
(* handle of every timer that is set and has not fired to the closure of  *)
(* its callback: the requests whose promises the callback settles, the    *)
(* call that set the timer last and before it the calls whose callbacks   *)
(* await it (resolve(await this.navigateToPage(...))), outermost first.   *)
(* reloaded, destroyed and superseded record that initializePageMappings, *)
(* destroy and a later valid navigateToPage ran after the call was        *)
(* accepted.                                                               *)
(***************************************************************************)
NoTimer == 0
Handles == 1..MaxTimers

Request(n, startPlayback) ==
  [pageNumber |-> n, startPlayback |-> startPlayback, reloaded |-> FALSE,
   destroyed |-> FALSE, superseded |-> FALSE]

\* clearTimeout(handle): a fired handle is ignored.
clearTimeout(tm, handle) == [h \in DOMAIN tm \ {handle} |-> tm[h]]

\* setTimeout(callback, 300): the new handle and the timers with it.
setTimeout(tm, closure) ==
  LET free == Handles \ DOMAIN tm
      h == CHOOSE x \in free : \A y \in free : x <= y
  IN  [handle |-> h, timers |-> MapSet(tm, h, closure)]

\* The promise of one call, settled with value or left pending.
Outcome(r, value, depth) ==
  [pageNumber |-> Whole(r.pageNumber), startPlayback |-> r.startPlayback,
   value |-> value, redirections |-> depth]

\* resolve(value) in the callback with this closure: the promise of the
\* call and of every caller that awaits it.
Resolved(closure, value) ==
  {Outcome(closure[k], value, Len(closure) - k) : k \in 1..Len(closure)}

\* The promises that stay pending for ever once the timers gone are cleared.
Dropped(tm, gone) ==
  UNION {{Outcome(tm[h][k], "pending", Len(tm[h]) - k) : k \in 1..Len(tm[h])} :
           h \in gone}

\* Mutant: the upper limit is not checked.
isValidPageNumberNoUpperLimit(pageNumber) ==
  /\ NumberIsInteger(pageNumber)
  /\ NumGe(pageNumber, 1)

\* private isValidPageNumber(pageNumber)
isValidPageNumber(pageNumber) ==
  /\ NumberIsInteger(pageNumber)
  /\ NumGe(pageNumber, 1)
  /\ NumLe(pageNumber, playbackState.totalPages)

\* Mutant: the search skips the page after startPage.
findNextPageWithContentSkipping(startPage) ==
  LET found == {page \in (startPage + 2)..playbackState.totalPages :
                  MapHas(pageMap, page) /\ ~pageMap[page].isEmpty}
  IN  IF found = {} THEN 0
      ELSE CHOOSE page \in found : \A q \in found : page <= q

\* Mutant: the search covers the pages before startPage too.
findAnyPageWithContent(startPage) ==
  LET found == {page \in 1..playbackState.totalPages :
                  page # startPage /\ MapHas(pageMap, page) /\ ~pageMap[page].isEmpty}
  IN  IF found = {} THEN 0
      ELSE CHOOSE page \in found : \A q \in found : page <= q

\* private findNextPageWithContent(startPage); 0 stands for null.
findNextPageWithContent(startPage) ==
  LET found == {page \in (startPage + 1)..playbackState.totalPages :
                  MapHas(pageMap, page) /\ ~pageMap[page].isEmpty}
  IN  IF found = {} THEN 0
      ELSE CHOOSE page \in found : \A q \in found : page <= q

\* The messages passed to handleError.
InvalidPage(pageNumber) ==
  [message |-> "Invalid page number", pageNumber |-> pageNumber,
   totalPages |-> playbackState.totalPages]
MappingNotFound(n) ==
  [message |-> "Page mapping not found", pageNumber |-> Whole(n)]
EmptyJump(n, next) ==
  [message |-> "Page is empty. Jumping", pageNumber |-> Whole(n), next |-> next]
EmptyNoContent(n) ==
  [message |-> "Page is empty and no subsequent pages have content",
   pageNumber |-> Whole(n)]

\* Mutant: the pending timer is not cleared.
ClearDebounceSkipped(tm) == tm

\* "if (this.debounceTimer) clearTimeout(this.debounceTimer)"
ClearDebounce(tm) ==
  IF debounceTimer # NoTimer THEN clearTimeout(tm, debounceTimer) ELSE tm

\* The part of navigateToPage after validation: clear the pending timer and
\* set the new one, whose callback resolves the promise returned.  tm holds
\* the timers before the call and callers the calls that await this one.
Debounce(tm, callers, n, startPlayback) ==
  LET cleared == ClearDebounce(tm)
      earlier == [h \in DOMAIN cleared |->
                    [k \in DOMAIN cleared[h] |-> [cleared[h][k] EXCEPT !.superseded = TRUE]]]
      set == setTimeout(earlier, Append(callers, Request(n, startPlayback)))
  IN  [handle |-> set.handle,
       timers |-> set.timers,
       dropped |-> Dropped(tm, DOMAIN tm \ DOMAIN cleared)]

(***************************************************************************)
(* Inputs.                                                                 *)
(***************************************************************************)
RECURSIVE SeqsUpTo(_, _)
SeqsUpTo(S, n) ==
  IF n = 0 THEN {<< >>}
  ELSE LET shorter == SeqsUpTo(S, n - 1)
       IN  shorter \cup {Append(q, x) : q \in {r \in shorter : Len(r) = n - 1}, x \in S}

SentenceLists == SeqsUpTo(SentenceValues, MaxSentences)
PageCounts == 0..MaxPages
ExtractionMethods == {"text", "ocr", "mixed"}
DefaultMethod == "text"
PageNumbers == {Whole(k) : k \in 0..(MaxPages + 1)} \cup {Half(1)}

\* The document of the scenario: 10 pages, 95 sentences.
ScenarioDocument == <<10, [i \in 1..95 |-> TwoWords], DefaultMethod>>
SentenceIndices == (-1)..MaxSentences

\* The documents a session indexes, with the default extraction method.
SessionDocuments == PageCounts \X SentenceLists \X {DefaultMethod}

\* The documents the page mapper is applied to.
MapDocuments ==
  ((0..MaxMapPages) \X SeqsUpTo(SentenceValues, MaxMapSentences) \X ExtractionMethods)
    \cup {ScenarioDocument}

Documents == SessionDocuments \cup MapDocuments

\* The sentence indices narration reports for those documents.
NarrationIndices == ((-1)..MaxMapSentences) \cup {92, 95}

(***************************************************************************)
(* constructor                                                             *)
(***************************************************************************)
\* The defaults of the PerformanceOptimizer constructor, for the fields the
\* page cache reads.
DefaultMaxPagesInMemory == 50
DefaultLazyLoadThreshold == 100

\* constructor(config?): the defaults, then "...config"; the metrics are
\* zero and the caches are empty.  NoOverride is a call without config.
\* Of the metrics pageCount is kept: the others are written and never read.
NoOverride == << >>
NewPerformanceOptimizer(override) ==
  /\ config = [f \in {"maxPagesInMemory", "lazyLoadThreshold"} |->
                 IF f \in DOMAIN override THEN override[f]
                 ELSE IF f = "maxPagesInMemory" THEN DefaultMaxPagesInMemory
                 ELSE DefaultLazyLoadThreshold]
  /\ metrics = [pageCount |-> 0]
  /\ pageCache = << >>
  /\ loading = << >>
  /\ optimizing = 0

\* The fields of the synchronizer and of the error handler after
\* construction.
NewSession ==
  /\ pageMap = EmptyMap
  /\ sentenceToPageMap = EmptyMap
  /\ playbackState = [currentPage |-> 1, currentSentenceIndex |-> 0,
                      currentCharIndex |-> 0, totalPages |-> 0,
                      totalSentences |-> 0, isPlaying |-> FALSE,
                      playbackPosition |-> Zero]
  /\ debounceTimer = NoTimer
  /\ timers = EmptyMap
  /\ abandoned = {}
  /\ lastCall = [op |-> "constructor"]
  /\ notified = << >>
  /\ reported = << >>
  /\ settled = {}
  /\ errorLog = << >>
  /\ clock = 0
  /\ recovering = {}
  /\ onErrorCalls = << >>
  /\ onRecoveryCalls = << >>
  /\ returned = {}

Init ==
  /\ NewSession
  /\ NewPerformanceOptimizer(NoOverride)

\* Mutant: the state change is not passed on.
notifyStateChangeOmitted(state) == << >>

\* private notifyStateChange(): onStateChange, which every synchronizer of
\* the application is given, receives a copy of the playback state.
notifyStateChange(state) == <<state>>

(***************************************************************************)
(* initializePageMappings(pdfPages, sentences, extractionMethod); only    *)
(* the length of pdfPages is used.  The awaited detectImages is already   *)
(* resolved, so no timer fires before the method completes.               *)
(***************************************************************************)
\* The maps of every document of the model, computed once.
Built == [d \in Documents |-> BuildMaps(d[1], d[2], d[3])]

InitializePageMappings(nPages, sentences, method) ==
  LET built == Built[<<nPages, sentences, method>>]
  IN  /\ pageMap' = built.pageMap
      /\ sentenceToPageMap' = built.sentenceToPageMap
      /\ playbackState' = [playbackState EXCEPT !.totalPages = nPages,
                                                !.totalSentences = Len(sentences)]
      /\ notified' = notifyStateChange(playbackState')
      /\ reported' = << >>
      /\ settled' = {}
      /\ abandoned' = {}
      /\ timers' = [h \in DOMAIN timers |->
                      [k \in DOMAIN timers[h] |-> [timers[h][k] EXCEPT !.reloaded = TRUE]]]
      /\ lastCall' = [op |-> "initializePageMappings", pdfPages |-> nPages,
                      sentences |-> sentences, extractionMethod |-> method]
      /\ UNCHANGED debounceTimer
      /\ UNCHANGED handlerVars
      /\ UNCHANGED optimizerVars

(***************************************************************************)
(* navigateToPage(pageNumber, startPlayback), up to the return of the     *)
(* promise.                                                                *)
(***************************************************************************)
NavigateToPage(pageNumber, startPlayback) ==
  /\ lastCall' = [op |-> "navigateToPage", pageNumber |-> pageNumber,
                  startPlayback |-> startPlayback]
  /\ notified' = << >>
  /\ UNCHANGED <<pageMap, sentenceToPageMap, playbackState>>
  /\ UNCHANGED handlerVars
  /\ UNCHANGED optimizerVars
  /\ IF ~isValidPageNumber(pageNumber)
     THEN /\ reported' = <<InvalidPage(pageNumber)>>
          /\ settled' = {[pageNumber |-> pageNumber, startPlayback |-> startPlayback,
                          value |-> FALSE, redirections |-> 0]}
          /\ abandoned' = {}
          /\ UNCHANGED <<debounceTimer, timers>>
     ELSE /\ Handles \ DOMAIN ClearDebounce(timers) # {}
          /\ LET d == Debounce(timers, << >>, pageNumber.n, startPlayback)
             IN  /\ debounceTimer' = d.handle
                 /\ timers' = d.timers
                 /\ abandoned' = d.dropped
          /\ reported' = << >>
          /\ settled' = {}

\* Mutant: the progress within the page is not reset.
ApplyNavigationKeepingPosition(pageMapping, pageNumber, startPlayback) ==
  [playbackState EXCEPT
     !.currentPage = pageNumber,
     !.currentSentenceIndex = pageMapping.startSentenceIndex,
     !.currentCharIndex = pageMapping.startCharIndex,
     !.isPlaying = IF startPlayback THEN TRUE ELSE @]

\* Mutant: the sentence index is not moved to the start of the page.
ApplyNavigationKeepingSentence(pageMapping, pageNumber, startPlayback) ==
  [playbackState EXCEPT
     !.currentPage = pageNumber,
     !.currentCharIndex = pageMapping.startCharIndex,
     !.playbackPosition = Zero,
     !.isPlaying = IF startPlayback THEN TRUE ELSE @]

\* Mutant: isPlaying is assigned the flag, so a navigation without
\* startPlayback stops playback.
ApplyNavigationAssigningFlag(pageMapping, pageNumber, startPlayback) ==
  [playbackState EXCEPT
     !.currentPage = pageNumber,
     !.currentSentenceIndex = pageMapping.startSentenceIndex,
     !.currentCharIndex = pageMapping.startCharIndex,
     !.playbackPosition = Zero,
     !.isPlaying = startPlayback]

\* Mutant: the page reached is recorded as the last page of the document.
ApplyNavigationTruncating(pageMapping, pageNumber, startPlayback) ==
  [playbackState EXCEPT
     !.currentPage = pageNumber,
     !.currentSentenceIndex = pageMapping.startSentenceIndex,
     !.currentCharIndex = pageMapping.startCharIndex,
     !.playbackPosition = Zero,
     !.isPlaying = IF startPlayback THEN TRUE ELSE @,
     !.totalPages = pageNumber,
     !.totalSentences = pageMapping.endSentenceIndex + 1]

\* "Update playback state" in the timer callback of navigateToPage.
ApplyNavigation(pageMapping, pageNumber, startPlayback) ==
  [playbackState EXCEPT
     !.currentPage = pageNumber,
     !.currentSentenceIndex = pageMapping.startSentenceIndex,
     !.currentCharIndex = pageMapping.startCharIndex,
     !.playbackPosition = Zero,
     !.isPlaying = IF startPlayback THEN TRUE ELSE @]

(***************************************************************************)
(* The callback that navigateToPage passed to setTimeout, run when the    *)
(* timer h fires, with the continuations of the promises it resolves.     *)
(***************************************************************************)
DebounceFire(h) ==
  LET closure == timers[h]
      pageNumber == closure[Len(closure)].pageNumber
      startPlayback == closure[Len(closure)].startPlayback
      fired == clearTimeout(timers, h)
  IN
  /\ lastCall' = [op |-> "debounceFire", pageNumber |-> Whole(pageNumber),
                  startPlayback |-> startPlayback, closure |-> closure]
  /\ UNCHANGED <<pageMap, sentenceToPageMap>>
  /\ UNCHANGED handlerVars
  /\ UNCHANGED optimizerVars
  /\ IF ~MapHas(pageMap, pageNumber)
     THEN /\ reported' = <<MappingNotFound(pageNumber)>>
          /\ notified' = << >>
          /\ settled' = Resolved(closure, FALSE)
          /\ timers' = fired
          /\ abandoned' = {}
          /\ UNCHANGED <<playbackState, debounceTimer>>
     ELSE IF pageMap[pageNumber].isEmpty
     THEN LET nextPageWithContent == findNextPageWithContent(pageNumber)
          IN  /\ notified' = << >>
              /\ UNCHANGED playbackState
              /\ IF nextPageWithContent = 0
                 THEN /\ reported' = <<EmptyNoContent(pageNumber)>>
                      /\ settled' = Resolved(closure, FALSE)
                      /\ timers' = fired
                      /\ abandoned' = {}
                      /\ UNCHANGED debounceTimer
                 ELSE IF ~isValidPageNumber(Whole(nextPageWithContent))
                 THEN /\ reported' = <<EmptyJump(pageNumber, nextPageWithContent),
                                       InvalidPage(Whole(nextPageWithContent))>>
                      /\ settled' = Resolved(closure, FALSE)
                      /\ timers' = fired
                      /\ abandoned' = {}
                      /\ UNCHANGED debounceTimer
                 ELSE /\ reported' = <<EmptyJump(pageNumber, nextPageWithContent)>>
                      /\ Handles \ DOMAIN ClearDebounce(fired) # {}
                      /\ LET d == Debounce(fired, closure, nextPageWithContent,
                                           startPlayback)
                         IN  /\ debounceTimer' = d.handle
                             /\ timers' = d.timers
                             /\ abandoned' = d.dropped
                      /\ settled' = {}
     ELSE /\ playbackState' = ApplyNavigation(pageMap[pageNumber], pageNumber, startPlayback)
          /\ notified' = notifyStateChange(playbackState')
          /\ reported' = << >>
          /\ settled' = Resolved(closure, TRUE)
          /\ timers' = fired
          /\ abandoned' = {}
          /\ UNCHANGED debounceTimer

(***************************************************************************)
(* updateAudioPosition(sentenceIndex)                                      *)
(***************************************************************************)
\* Mutant: the position within the page is counted from one.
PositionInPageFromOne(pageMapping, sentenceIndex) ==
  LET sentencesInPage == pageMapping.endSentenceIndex
                           - pageMapping.startSentenceIndex + 1
      sentencePositionInPage == sentenceIndex - pageMapping.startSentenceIndex + 1
  IN  IF sentencesInPage > 0
      THEN Ratio(sentencePositionInPage, sentencesInPage)
      ELSE Zero

\* "Calculate position within page"
PositionInPage(pageMapping, sentenceIndex) ==
  LET sentencesInPage == pageMapping.endSentenceIndex
                           - pageMapping.startSentenceIndex + 1
      sentencePositionInPage == sentenceIndex - pageMapping.startSentenceIndex
  IN  IF sentencesInPage > 0
      THEN Ratio(sentencePositionInPage, sentencesInPage)
      ELSE Zero

\* Mutant: an index out of range is moved to the nearest sentence.
OwningPageOfNearest(sentenceIndex) ==
  LET nearest == Max(0, Min(sentenceIndex, playbackState.totalSentences - 1))
  IN  IF MapHas(sentenceToPageMap, nearest) THEN sentenceToPageMap[nearest] ELSE 0

\* The three early returns of updateAudioPosition: the page that owns the
\* sentence, or 0 when the method returns without effect.
OwningPage(sentenceIndex) ==
  IF sentenceIndex < 0 \/ sentenceIndex >= playbackState.totalSentences THEN 0
  ELSE IF ~MapHas(sentenceToPageMap, sentenceIndex) THEN 0
  ELSE IF ~MapHas(pageMap, sentenceToPageMap[sentenceIndex]) THEN 0
  ELSE sentenceToPageMap[sentenceIndex]

UpdateAudioPosition(sentenceIndex) ==
  LET pageNumber == OwningPage(sentenceIndex)
  IN
  /\ lastCall' = [op |-> "updateAudioPosition", sentenceIndex |-> sentenceIndex]
  /\ reported' = << >>
  /\ settled' = {}
  /\ abandoned' = {}
  /\ UNCHANGED <<pageMap, sentenceToPageMap, debounceTimer, timers>>
  /\ UNCHANGED handlerVars
  /\ UNCHANGED optimizerVars
  /\ IF pageNumber = 0
     THEN /\ notified' = << >>
          /\ UNCHANGED playbackState
     ELSE LET playbackPosition == PositionInPage(pageMap[pageNumber], sentenceIndex)
          IN  /\ playbackState' =
                   [playbackState EXCEPT
                      !.currentPage = pageNumber,
                      !.currentSentenceIndex = sentenceIndex,
                      !.playbackPosition = Clamp01(playbackPosition)]
              /\ notified' = notifyStateChange(playbackState')

(***************************************************************************)
(* setPlaybackState(isPlaying)                                             *)
(***************************************************************************)
SetPlaybackState(isPlaying) ==
  /\ playbackState' = [playbackState EXCEPT !.isPlaying = isPlaying]
  /\ notified' = notifyStateChange(playbackState')
  /\ lastCall' = [op |-> "setPlaybackState", isPlaying |-> isPlaying]
  /\ reported' = << >>
  /\ settled' = {}
  /\ abandoned' = {}
  /\ UNCHANGED <<pageMap, sentenceToPageMap, debounceTimer, timers>>
  /\ UNCHANGED handlerVars
  /\ UNCHANGED optimizerVars

(***************************************************************************)
(* calculatePageProgress(): the value returned in the current state.       *)
(***************************************************************************)
calculatePageProgress ==
  IF ~MapHas(pageMap, playbackState.currentPage) THEN Zero
  ELSE LET pageMapping == pageMap[playbackState.currentPage]
           totalSentencesInPage == pageMapping.endSentenceIndex
                                     - pageMapping.startSentenceIndex + 1
           currentSentenceInPage == playbackState.currentSentenceIndex
                                      - pageMapping.startSentenceIndex
       IN  IF totalSentencesInPage > 0
           THEN Ratio(currentSentenceInPage, totalSentencesInPage)
           ELSE Zero

(***************************************************************************)
(* destroy()                                                               *)
(***************************************************************************)
Destroy ==
  LET cleared == ClearDebounce(timers)
  IN  /\ timers' = [h \in DOMAIN cleared |->
                      [k \in DOMAIN cleared[h] |-> [cleared[h][k] EXCEPT !.destroyed = TRUE]]]
      /\ pageMap' = EmptyMap
      /\ sentenceToPageMap' = EmptyMap
      /\ abandoned' = Dropped(timers, DOMAIN timers \ DOMAIN cleared)
      /\ lastCall' = [op |-> "destroy"]
      /\ notified' = << >>
      /\ reported' = << >>
      /\ settled' = {}
      /\ UNCHANGED <<playbackState, debounceTimer>>
      /\ UNCHANGED handlerVars
      /\ UNCHANGED optimizerVars

\* No document has been indexed by this synchronizer.
NoDocument ==
  /\ pageMap = EmptyMap
  /\ playbackState.totalPages = 0
  /\ playbackState.totalSentences = 0

\* One document session: the synchronizer indexes one document and serves
\* any calls, in any order, before and after that and after destroy().
Next ==
  \/ /\ NoDocument
     /\ \E d \in SessionDocuments : InitializePageMappings(d[1], d[2], d[3])
  \/ \E pageNumber \in PageNumbers, startPlayback \in BOOLEAN :
       NavigateToPage(pageNumber, startPlayback)
  \/ \E h \in DOMAIN timers : DebounceFire(h)
  \/ \E sentenceIndex \in SentenceIndices : UpdateAudioPosition(sentenceIndex)
  \/ \E isPlaying \in BOOLEAN : SetPlaybackState(isPlaying)
  \/ Destroy

Spec == Init /\ [][Next]_vars

\* The session with the timers of the event loop: a timer that is set and
\* not cleared fires, and when timers are set again and again one of them
\* fires.
SpecTimers ==
  Spec /\ SF_vars(\E h \in DOMAIN timers : DebounceFire(h))

\* The documents that follow one another: they have pages and sentences
\* with words.
ReloadDocuments ==
  {d \in SessionDocuments :
     d[1] >= 1 /\ Len(d[2]) >= 1 /\ \A i \in 1..Len(d[2]) : d[2][i] = TwoWords}

\* Several documents in turn: the synchronizer indexes a document at any
\* time, also after another one and while a request is pending.
NextReload ==
  \/ \E d \in ReloadDocuments : InitializePageMappings(d[1], d[2], d[3])
  \/ \E pageNumber \in PageNumbers, startPlayback \in BOOLEAN :
       NavigateToPage(pageNumber, startPlayback)
  \/ \E h \in DOMAIN timers : DebounceFire(h)
  \/ \E sentenceIndex \in SentenceIndices : UpdateAudioPosition(sentenceIndex)
  \/ \E isPlaying \in BOOLEAN : SetPlaybackState(isPlaying)
  \/ Destroy

SpecReload == Init /\ [][NextReload]_vars

\* The documents of a synchronizer that is never destroyed.
NextDocuments ==
  \/ \E d \in ReloadDocuments : InitializePageMappings(d[1], d[2], d[3])
  \/ \E pageNumber \in PageNumbers, startPlayback \in BOOLEAN :
       NavigateToPage(pageNumber, startPlayback)
  \/ \E h \in DOMAIN timers : DebounceFire(h)
  \/ \E sentenceIndex \in SentenceIndices : UpdateAudioPosition(sentenceIndex)
  \/ \E isPlaying \in BOOLEAN : SetPlaybackState(isPlaying)

SpecDocuments == Init /\ [][NextDocuments]_vars

\* The page mapper alone: one document is indexed by a new synchronizer.
NextMap ==
  /\ NoDocument
  /\ \E d \in MapDocuments : InitializePageMappings(d[1], d[2], d[3])

SpecMap == Init /\ [][NextMap]_vars

\* Narration over one indexed document: the document is indexed, narration
\* reports sentence indices, and the synchronizer may be destroyed.
NextNarration ==
  \/ /\ NoDocument
     /\ \E d \in MapDocuments : InitializePageMappings(d[1], d[2], d[3])
  \/ \E sentenceIndex \in NarrationIndices : UpdateAudioPosition(sentenceIndex)
  \/ Destroy

SpecNarration == Init /\ [][NextNarration]_vars

(***************************************************************************)
(* ErrorHandler (errorHandler.ts).                                         *)
(***************************************************************************)
ErrorTypes ==
  {"PDF_LOAD_ERROR", "TEXT_EXTRACTION_ERROR", "OCR_ERROR",
   "AUDIO_SYNTHESIS_ERROR", "PAGE_NAVIGATION_ERROR", "SYNCHRONIZATION_ERROR",
   "PERFORMANCE_ERROR", "VALIDATION_ERROR", "NETWORK_ERROR",
   "BROWSER_COMPATIBILITY_ERROR"}

\* private maxLogSize: number = 100
maxLogSize == 100

\* Mutant: page navigation errors are rated HIGH.
determineSeverityOfNavigationHigh(type) ==
  CASE type \in {"PDF_LOAD_ERROR", "BROWSER_COMPATIBILITY_ERROR"} -> "CRITICAL"
    [] type \in {"TEXT_EXTRACTION_ERROR", "AUDIO_SYNTHESIS_ERROR",
                 "SYNCHRONIZATION_ERROR", "PAGE_NAVIGATION_ERROR"} -> "HIGH"
    [] type \in {"OCR_ERROR", "PERFORMANCE_ERROR"} -> "MEDIUM"
    [] type \in {"VALIDATION_ERROR", "NETWORK_ERROR"} -> "LOW"
    [] OTHER -> "MEDIUM"

\* private determineSeverity(type)
determineSeverity(type) ==
  CASE type \in {"PDF_LOAD_ERROR", "BROWSER_COMPATIBILITY_ERROR"} -> "CRITICAL"
    [] type \in {"TEXT_EXTRACTION_ERROR", "AUDIO_SYNTHESIS_ERROR",
                 "SYNCHRONIZATION_ERROR"} -> "HIGH"
    [] type \in {"OCR_ERROR", "PAGE_NAVIGATION_ERROR", "PERFORMANCE_ERROR"} -> "MEDIUM"
    [] type \in {"VALIDATION_ERROR", "NETWORK_ERROR"} -> "LOW"
    [] OTHER -> "MEDIUM"

\* Mutant: every type is recoverable.
isRecoverableAlways(type) == TRUE

\* private isRecoverable(type)
isRecoverable(type) ==
  CASE type \in {"PDF_LOAD_ERROR", "BROWSER_COMPATIBILITY_ERROR"} -> FALSE
    [] type \in {"TEXT_EXTRACTION_ERROR", "OCR_ERROR", "AUDIO_SYNTHESIS_ERROR",
                 "PAGE_NAVIGATION_ERROR", "SYNCHRONIZATION_ERROR",
                 "PERFORMANCE_ERROR", "VALIDATION_ERROR", "NETWORK_ERROR"} -> TRUE
    [] OTHER -> FALSE

\* private getRecoveryActions(type)
getRecoveryActions(type) ==
  CASE type = "TEXT_EXTRACTION_ERROR" ->
         <<"Try OCR extraction", "Skip problematic page",
           "Use alternative text extraction method">>
    [] type = "OCR_ERROR" ->
         <<"Fallback to standard text extraction", "Skip page with OCR issues",
           "Reduce image quality and retry">>
    [] type = "AUDIO_SYNTHESIS_ERROR" ->
         <<"Try different voice", "Reduce text chunk size",
           "Use system default voice", "Skip problematic text segment">>
    [] type = "PAGE_NAVIGATION_ERROR" ->
         <<"Validate page number", "Navigate to nearest valid page",
           "Reset to first page">>
    [] type = "SYNCHRONIZATION_ERROR" ->
         <<"Recalculate page mappings", "Reset synchronization state",
           "Restart from current position">>
    [] OTHER -> <<"Retry operation", "Reset to default state">>

\* The values undefined, an Error and a details object; a context is a
\* sequence of no string (undefined) or one string.
Undefined == [kind |-> "undefined"]
ErrorObject(message) == [kind |-> "Error", message |-> message]
ErrorString(message) == [kind |-> "string", message |-> message]
DetailsObject(extractionMethod) ==
  [kind |-> "object", extractionMethod |-> extractionMethod]

\* errorInfo.details?.extractionMethod
ExtractionMethodOf(details) ==
  IF "extractionMethod" \in DOMAIN details
  THEN details.extractionMethod
  ELSE "undefined"

\* A recovery action is its name and what a call of it does: it resolves
\* to true ("true"), resolves to false ("false") or rejects ("throws").
RecoveryAction(name, result) == [name |-> name, result |-> result]

\* Mutant: an OCR error has a strategy of its own, which succeeds.
getRecoveryStrategyWithOCR(errorInfo) ==
  CASE errorInfo.type = "TEXT_EXTRACTION_ERROR" ->
         [canRecover |-> TRUE,
          actions |-> <<RecoveryAction("ocrRetry",
                          IF ExtractionMethodOf(errorInfo.details) # "ocr"
                          THEN "true" ELSE "false")>>]
    [] errorInfo.type \in {"AUDIO_SYNTHESIS_ERROR", "OCR_ERROR"} ->
         [canRecover |-> TRUE,
          actions |-> <<RecoveryAction("defaultVoice", "true")>>]
    [] OTHER -> [canRecover |-> FALSE, actions |-> << >>]

\* private getRecoveryStrategy(errorInfo)
getRecoveryStrategy(errorInfo) ==
  CASE errorInfo.type = "TEXT_EXTRACTION_ERROR" ->
         [canRecover |-> TRUE,
          actions |-> <<RecoveryAction("ocrRetry",
                          IF ExtractionMethodOf(errorInfo.details) # "ocr"
                          THEN "true" ELSE "false")>>]
    [] errorInfo.type = "AUDIO_SYNTHESIS_ERROR" ->
         [canRecover |-> TRUE,
          actions |-> <<RecoveryAction("defaultVoice", "true")>>]
    [] OTHER -> [canRecover |-> FALSE, actions |-> << >>]

\* Mutant: the loop gives up at the first action that does not succeed.
RECURSIVE RecoveryLoopStoppingAtFailure(_, _, _)
RecoveryLoopStoppingAtFailure(actions, i, ran) ==
  IF i > Len(actions) THEN [success |-> FALSE, ran |-> ran]
  ELSE [success |-> actions[i].result = "true", ran |-> Append(ran, actions[i])]

\* The loop of attemptRecovery from action i on: the actions run, in
\* order, and the value returned.  A rejected action is caught and the
\* loop goes on.
RECURSIVE RecoveryLoop(_, _, _)
RecoveryLoop(actions, i, ran) ==
  IF i > Len(actions) THEN [success |-> FALSE, ran |-> ran]
  ELSE IF actions[i].result = "true"
       THEN [success |-> TRUE, ran |-> Append(ran, actions[i])]
       ELSE RecoveryLoop(actions, i + 1, Append(ran, actions[i]))

\* attemptRecovery once the strategy is known.
RunStrategy(strategy) ==
  IF ~strategy.canRecover
  THEN [success |-> FALSE, ran |-> << >>]
  ELSE RecoveryLoop(strategy.actions, 1, << >>)

\* private attemptRecovery(errorInfo)
attemptRecovery(errorInfo) == RunStrategy(getRecoveryStrategy(errorInfo))

\* Mutant: the log keeps its first maxLogSize entries.
logErrorKeepingOldest(log, errorInfo) ==
  LET pushed == Append(log, errorInfo)
  IN  IF Len(pushed) > maxLogSize
      THEN SubSeq(pushed, 1, maxLogSize)
      ELSE pushed

\* private logError(errorInfo): push, then slice(-maxLogSize).
logError(log, errorInfo) ==
  LET pushed == Append(log, errorInfo)
  IN  IF Len(pushed) > maxLogSize
      THEN SubSeq(pushed, Len(pushed) - maxLogSize + 1, Len(pushed))
      ELSE pushed

\* The ErrorInfo object literal of handleError.
NewErrorInfo(type, error, context, details, now) ==
  [type |-> type,
   severity |-> determineSeverity(type),
   message |-> error.message,
   details |-> IF details.kind # "undefined" THEN details
               ELSE IF error.kind = "Error" THEN error ELSE Undefined,
   timestamp |-> now,
   context |-> context,
   recoverable |-> isRecoverable(type),
   recoveryActions |-> getRecoveryActions(type)]

\* Mutant: a recoverable error is not logged before the call is suspended.
HandleErrorLoggingLater(type, error, context, details) ==
  LET errorInfo == NewErrorInfo(type, error, context, details, clock + 1)
      recovery == attemptRecovery(errorInfo)
  IN  /\ clock' = clock + 1
      /\ errorLog' = IF errorInfo.recoverable THEN errorLog
                     ELSE logError(errorLog, errorInfo)
      /\ onErrorCalls' = <<errorInfo>>
      /\ onRecoveryCalls' = << >>
      /\ IF errorInfo.recoverable
         THEN /\ recovering' = recovering \cup
                                 {[errorInfo |-> errorInfo, success |-> recovery.success]}
              /\ returned' = {}
              /\ lastCall' = [op |-> "handleError", errorInfo |-> errorInfo,
                              actionsRun |-> recovery.ran]
         ELSE /\ recovering' = recovering
              /\ returned' = {[timestamp |-> errorInfo.timestamp, value |-> FALSE]}
              /\ lastCall' = [op |-> "handleError", errorInfo |-> errorInfo,
                              actionsRun |-> << >>]
      /\ UNCHANGED synchronizerVars
      /\ UNCHANGED optimizerVars

(***************************************************************************)
(* handleError(type, error, context, details) up to its suspension at     *)
(* "await this.attemptRecovery(errorInfo)", or to its return for a type   *)
(* that is not recoverable.  The recovery actions have no await of their  *)
(* own, so they have run when the call is suspended.                       *)
(***************************************************************************)
HandleError(type, error, context, details) ==
  LET errorInfo == NewErrorInfo(type, error, context, details, clock + 1)
      recovery == attemptRecovery(errorInfo)
  IN  /\ clock' = clock + 1
      /\ errorLog' = logError(errorLog, errorInfo)
      /\ onErrorCalls' = <<errorInfo>>
      /\ onRecoveryCalls' = << >>
      /\ IF errorInfo.recoverable
         THEN /\ recovering' = recovering \cup
                                 {[errorInfo |-> errorInfo, success |-> recovery.success]}
              /\ returned' = {}
              /\ lastCall' = [op |-> "handleError", errorInfo |-> errorInfo,
                              actionsRun |-> recovery.ran]
         ELSE /\ recovering' = recovering
              /\ returned' = {[timestamp |-> errorInfo.timestamp, value |-> FALSE]}
              /\ lastCall' = [op |-> "handleError", errorInfo |-> errorInfo,
                              actionsRun |-> << >>]
      /\ UNCHANGED synchronizerVars
      /\ UNCHANGED optimizerVars

\* The rest of handleError once attemptRecovery has resolved.
HandleErrorResume(call) ==
  /\ recovering' = recovering \ {call}
  /\ onRecoveryCalls' = <<[success |-> call.success, errorInfo |-> call.errorInfo]>>
  /\ returned' = {[timestamp |-> call.errorInfo.timestamp, value |-> call.success]}
  /\ onErrorCalls' = << >>
  /\ lastCall' = [op |-> "handleErrorResume", errorInfo |-> call.errorInfo]
  /\ UNCHANGED <<errorLog, clock>>
  /\ UNCHANGED synchronizerVars
  /\ UNCHANGED optimizerVars

\* Arguments of handleError: the error, the context and the details.
ErrorArguments ==
  {<<ErrorString("failed"), << >>, Undefined>>,
   <<ErrorObject("timeout"), << >>, Undefined>>,
   <<ErrorObject("timeout"), <<"Text Extraction">>, DetailsObject("ocr")>>,
   <<ErrorString("failed"), <<"Page Navigation">>, DetailsObject("text")>>}

ErrorInputs == ErrorTypes \X ErrorArguments

\* A few errors of any type with any arguments; a call may start while
\* earlier calls are suspended.
NextErrors ==
  \/ /\ clock < MaxErrors
     /\ \E e \in ErrorInputs : HandleError(e[1], e[2][1], e[2][2], e[2][3])
  \/ \E call \in recovering : HandleErrorResume(call)

SpecErrors == Init /\ [][NextErrors]_vars

\* A long run of errors: one that is not recoverable, one that is
\* recovered and one that is not recovered.  A call starts while calls
\* are suspended when these are among the last MaxSuspended calls.
LogInputs ==
  <<<<"PDF_LOAD_ERROR", <<ErrorObject("timeout"), << >>, Undefined>>>>,
    <<"AUDIO_SYNTHESIS_ERROR", <<ErrorString("failed"), << >>, Undefined>>>>,
    <<"OCR_ERROR", <<ErrorObject("timeout"), <<"Text Extraction">>, DetailsObject("ocr")>>>>>>

\* The errors call n may report: any of the three at the start of the run
\* and once the log is full, the three in turn in between.
LogInputsOfCall(n) ==
  IF n <= MaxFreeErrors \/ n > maxLogSize
  THEN {LogInputs[k] : k \in 1..3}
  ELSE {LogInputs[(n % 3) + 1]}

NextLog ==
  \/ /\ clock < MaxLogErrors
     /\ \A call \in recovering : call.errorInfo.timestamp > clock - MaxSuspended
     /\ \E e \in LogInputsOfCall(clock + 1) : HandleError(e[1], e[2][1], e[2][2], e[2][3])
  \/ \E call \in recovering : HandleErrorResume(call)

SpecLog == Init /\ [][NextLog]_vars

\* Recovery strategies of the shape getRecoveryStrategy builds: one that
\* cannot recover has no action, one that can has a list of actions, each
\* of which succeeds, fails or throws.
ActionNames == <<"first", "second", "third", "fourth">>
ActionResults == {"true", "false", "throws"}
ActionLists ==
  UNION {{[i \in 1..n |-> RecoveryAction(ActionNames[i], r[i])] :
            r \in [1..n -> ActionResults]} : n \in 0..MaxActions}
Strategies ==
  {[canRecover |-> FALSE, actions |-> << >>]}
    \cup {[canRecover |-> TRUE, actions |-> a] : a \in ActionLists}

\* attemptRecovery for an error whose strategy is the given one.
AttemptRecovery(strategy) ==
  LET recovery == RunStrategy(strategy)
  IN  /\ lastCall' = [op |-> "attemptRecovery", strategy |-> strategy,
                      actionsRun |-> recovery.ran, value |-> recovery.success]
      /\ UNCHANGED synchronizerVars
      /\ UNCHANGED handlerVars
      /\ UNCHANGED optimizerVars

\* The recovery loop on any strategy, and one error handled from start to
\* end.
NextRecovery ==
  \/ \E strategy \in Strategies : AttemptRecovery(strategy)
  \/ /\ clock < 1
     /\ \E e \in ErrorInputs : HandleError(e[1], e[2][1], e[2][2], e[2][3])
  \/ \E call \in recovering : HandleErrorResume(call)

SpecRecovery == Init /\ [][NextRecovery]_vars

(***************************************************************************)
(* Sentence segmentation (PDFReader.tsx and App.tsx, extractTextFromPDF): *)
(* the text of the pages is cut into sentences.                            *)
(***************************************************************************)
Terminators == {".", "!", "?"}
Uppercase == {"B"}
Letters == {"a", "b", "B"}
Bar == "|"

\* .replace(/([.!?])\s+/g, '$1|') from position i on: a terminator and
\* the whole run of whitespace after it become the terminator and a bar.
RECURSIVE ReplaceTerminatorSpace(_, _)
ReplaceTerminatorSpace(text, i) ==
  IF i > Len(text) THEN << >>
  ELSE IF text[i] \in Terminators /\ i < Len(text) /\ text[i + 1] \in Whitespace
  THEN LET after == {j \in (i + 1)..Len(text) : text[j] \notin Whitespace}
           next == IF after = {} THEN Len(text) + 1
                   ELSE CHOOSE j \in after : \A k \in after : j <= k
       IN  <<text[i], Bar>> \o ReplaceTerminatorSpace(text, next)
  ELSE <<text[i]>> \o ReplaceTerminatorSpace(text, i + 1)

\* .replace(/([.!?])([A-Z])/g, '$1|$2') from position i on.
RECURSIVE ReplaceTerminatorUpper(_, _)
ReplaceTerminatorUpper(text, i) ==
  IF i > Len(text) THEN << >>
  ELSE IF text[i] \in Terminators /\ i < Len(text) /\ text[i + 1] \in Uppercase
  THEN <<text[i], Bar, text[i + 1]>> \o ReplaceTerminatorUpper(text, i + 2)
  ELSE <<text[i]>> \o ReplaceTerminatorUpper(text, i + 1)

\* String.prototype.split(separator) for a separator of one character:
\* the pieces between the separators, the empty ones included.
RECURSIVE Split(_, _)
Split(text, separator) ==
  LET at == {i \in 1..Len(text) : text[i] = separator}
  IN  IF at = {} THEN <<text>>
      ELSE LET first == CHOOSE i \in at : \A k \in at : i <= k
           IN  <<SubSeq(text, 1, first - 1)>>
                 \o Split(SubSeq(text, first + 1, Len(text)), separator)

\* Mutant: a sentence of one word is kept.
isValidOfOneWord(sentence) ==
  /\ Len(sentence) > 0
  /\ Len(Split(sentence, SP)) >= 1
  /\ \E i \in 1..Len(sentence) : sentence[i] \in Letters

\* The filter of the sentence array.
isValid(sentence) ==
  /\ Len(sentence) > 0
  /\ Len(Split(sentence, SP)) > 1
  /\ \E i \in 1..Len(sentence) : sentence[i] \in Letters

\* .filter(sentence => isValid)
RECURSIVE FilterValid(_)
FilterValid(arr) ==
  IF arr = << >> THEN << >>
  ELSE (IF isValid(Head(arr)) THEN <<Head(arr)>> ELSE << >>) \o FilterValid(Tail(arr))

\* The candidates: the pieces of the text, trimmed.
Candidates(fullText) ==
  LET marked == ReplaceTerminatorUpper(ReplaceTerminatorSpace(fullText, 1), 1)
      pieces == Split(marked, Bar)
  IN  [i \in 1..Len(pieces) |-> Trim(pieces[i])]

\* const sentenceArray = fullText.replace(...).replace(...).split('|')
\*   .map(sentence => sentence.trim()).filter(...)
sentenceArray(fullText) == FilterValid(Candidates(fullText))

\* Mutant: the page is estimated from the index, not from the count of
\* sentences up to it.
estimatedPageOfIndex(index, nSentences, numPages) ==
  LET avgSentencesPerPage == Ceil(nSentences, numPages)
  IN  Min(numPages, Ceil(index, avgSentencesPerPage))

\* const estimatedPage = Math.min(pdf.numPages,
\*   Math.ceil((index + 1) / avgSentencesPerPage)) for a sentence array of
\* nSentences >= 1 sentences and numPages >= 1.
estimatedPage(index, nSentences, numPages) ==
  LET avgSentencesPerPage == Ceil(nSentences, numPages)
  IN  Min(numPages, Ceil(index + 1, avgSentencesPerPage))

\* The texts: up to MaxFragments fragments, each a character or two words.
Fragments == {<<"a">>, <<"B">>, <<SP>>, <<TAB>>, <<".">>, <<"1">>, TwoWords}

RECURSIVE Concat(_)
Concat(parts) == IF parts = << >> THEN << >> ELSE Head(parts) \o Concat(Tail(parts))

Texts == {Concat(parts) : parts \in SeqsUpTo(Fragments, MaxFragments)}

\* The segmentation of an extracted text.
Segment(fullText) ==
  /\ lastCall' = [op |-> "segment", fullText |-> fullText,
                  sentenceArray |-> sentenceArray(fullText)]
  /\ UNCHANGED synchronizerVars
  /\ UNCHANGED handlerVars
  /\ UNCHANGED optimizerVars

\* One text is extracted and segmented.
NextSegment ==
  /\ lastCall.op = "constructor"
  /\ \E fullText \in Texts : Segment(fullText)

SpecSegment == Init /\ [][NextSegment]_vars

(***************************************************************************)
(* PerformanceOptimizer (performanceOptimizer.ts): the page cache.  A Map  *)
(* iterates in insertion order, so pageCache is the sequence of its        *)
(* entries, the oldest-inserted first.                                     *)
(***************************************************************************)
MaxCachePages == 11
MaxLoading == 2
MaxOptimizing == 2

\* Map.keys(), Map.has, Map.get, Map.delete and Map.set: set on a key that
\* is present replaces the value where the entry stands.
CacheKeys(cache) == {cache[i].key : i \in 1..Len(cache)}
CacheHas(cache, k) == k \in CacheKeys(cache)
CacheGet(cache, k) ==
  (CHOOSE e \in {cache[i] : i \in 1..Len(cache)} : e.key = k).value
CacheDelete(cache, k) == SelectSeq(cache, LAMBDA e : e.key # k)
CacheSet(cache, k, v) ==
  IF CacheHas(cache, k)
  THEN [i \in 1..Len(cache) |->
          IF cache[i].key = k THEN [key |-> k, value |-> v] ELSE cache[i]]
  ELSE Append(cache, [key |-> k, value |-> v])

\* A sequence without its i-th element.
Without(seq, i) == [j \in 1..(Len(seq) - 1) |-> IF j < i THEN seq[j] ELSE seq[j + 1]]

\* lazyLoadPage after the loader: the page is stored if there is space,
\* else the first key of the Map, when it has one, is deleted and then the
\* page is stored.
Store(cache, maxPagesInMemory, pageNumber, pageData) ==
  IF Len(cache) < maxPagesInMemory
  THEN CacheSet(cache, pageNumber, pageData)
  ELSE CacheSet(IF cache # << >> THEN CacheDelete(cache, cache[1].key) ELSE cache,
                pageNumber, pageData)

\* lazyLoadPage(pageNumber, loader) up to its return on a cache hit or to
\* its suspension at "await loader(pageNumber)".
LazyLoadPage(pageNumber) ==
  /\ IF CacheHas(pageCache, pageNumber)
     THEN /\ loading' = loading
          /\ lastCall' = [op |-> "lazyLoadPage", pageNumber |-> pageNumber,
                          hit |-> TRUE,
                          returned |-> CacheGet(pageCache, pageNumber)]
     ELSE /\ Len(loading) < MaxLoading
          /\ loading' = Append(loading, pageNumber)
          /\ lastCall' = [op |-> "lazyLoadPage", pageNumber |-> pageNumber,
                          hit |-> FALSE]
  /\ UNCHANGED <<config, metrics, pageCache, optimizing>>
  /\ UNCHANGED synchronizerVars
  /\ UNCHANGED handlerVars

\* The rest of lazyLoadPage once the loader has resolved with pageData.
LoaderResolves(i, pageData) ==
  /\ i \in 1..Len(loading)
  /\ pageCache' = Store(pageCache, config.maxPagesInMemory, loading[i], pageData)
  /\ loading' = Without(loading, i)
  /\ lastCall' = [op |-> "loaderResolved", pageNumber |-> loading[i],
                  returned |-> pageData]
  /\ UNCHANGED <<config, metrics, optimizing>>
  /\ UNCHANGED synchronizerVars
  /\ UNCHANGED handlerVars

\* The rest of lazyLoadPage once the loader has rejected: the error is
\* logged and thrown again, the cache is as it was.
LoaderRejects(i) ==
  /\ i \in 1..Len(loading)
  /\ loading' = Without(loading, i)
  /\ lastCall' = [op |-> "loaderRejected", pageNumber |-> loading[i]]
  /\ UNCHANGED <<config, metrics, pageCache, optimizing>>
  /\ UNCHANGED synchronizerVars
  /\ UNCHANGED handlerVars

\* private calculateOptimalBatchSize()
calculateOptimalBatchSize(pageCount) ==
  IF pageCount <= 50 THEN 5
  ELSE IF pageCount <= 200 THEN 10
  ELSE IF pageCount <= 500 THEN 20
  ELSE 25

\* optimizeDocumentProcessing(pdfDocument) up to its suspension at "await
\* this.estimateDocumentSize(pdfDocument)".  A pdfDocument that is null
\* throws on numPages: nothing is changed and the defaults are returned.
OptimizeDocumentProcessing(pdfDocument) ==
  /\ IF pdfDocument = Undefined
     THEN /\ UNCHANGED <<metrics, optimizing>>
          /\ lastCall' = [op |-> "optimizeDocumentProcessing",
                          pdfDocument |-> pdfDocument,
                          returned |-> [shouldUseLazyLoading |-> FALSE]]
     ELSE /\ optimizing < MaxOptimizing
          /\ metrics' = [metrics EXCEPT !.pageCount = pdfDocument.numPages]
          /\ optimizing' = optimizing + 1
          /\ lastCall' = [op |-> "optimizeDocumentProcessing",
                          pdfDocument |-> pdfDocument]
  /\ UNCHANGED <<config, pageCache, loading>>
  /\ UNCHANGED synchronizerVars
  /\ UNCHANGED handlerVars

\* The limit of a document that is loaded lazily.
LoweredLimit(maxPagesInMemory, pageCount) ==
  Min(maxPagesInMemory, Max(10, pageCount \div 10))

\* The rest of optimizeDocumentProcessing: the strategy is read from the
\* page count the metrics hold now, and the limit of the cache is lowered
\* for a document above the threshold.  The cache is not touched.
OptimizeResume ==
  /\ optimizing > 0
  /\ LET shouldUseLazyLoading == metrics.pageCount > config.lazyLoadThreshold
     IN  /\ config' = IF shouldUseLazyLoading
                      THEN [config EXCEPT !.maxPagesInMemory =
                              LoweredLimit(config.maxPagesInMemory,
                                           metrics.pageCount)]
                      ELSE config
         /\ lastCall' = [op |-> "optimizeResume",
                         returned |->
                           [shouldUseLazyLoading |-> shouldUseLazyLoading,
                            batchSize |->
                              calculateOptimalBatchSize(metrics.pageCount)]]
  /\ optimizing' = optimizing - 1
  /\ UNCHANGED <<metrics, pageCache, loading>>
  /\ UNCHANGED synchronizerVars
  /\ UNCHANGED handlerVars

\* private performMemoryCleanup(), which the interval timer of the
\* constructor calls: above 0.8 of the limit the oldest 0.3 of the entries
\* are deleted.  size > max * 0.8 is 5 * size > 4 * max, and
\* Math.floor(size * 0.3) is the integer quotient of 3 * size by 10: the
\* rounding of the products does not cross an integer.
PerformMemoryCleanup ==
  /\ pageCache' = IF 5 * Len(pageCache) > 4 * config.maxPagesInMemory
                  THEN LET n == (3 * Len(pageCache)) \div 10
                       IN  SubSeq(pageCache, n + 1, Len(pageCache))
                  ELSE pageCache
  /\ lastCall' = [op |-> "performMemoryCleanup"]
  /\ UNCHANGED <<config, metrics, loading, optimizing>>
  /\ UNCHANGED synchronizerVars
  /\ UNCHANGED handlerVars

\* The configurations an optimizer is constructed with: the defaults, and
\* limits of one and two pages.
Overrides ==
  {NoOverride, [maxPagesInMemory |-> 1], [maxPagesInMemory |-> 2]}

\* What a loader resolves with: the text of the page, and for the first
\* page its scan as well.
PageData(pageNumber) == IF pageNumber = 1 THEN {"text", "scan"} ELSE {"text"}

\* The documents that are optimized: below the threshold, just above it,
\* well above it, and null.
PdfDocuments == {[numPages |-> n] : n \in {3, 101, 250}} \cup {Undefined}

\* The pages that are requested by a reader who goes forward: the pages
\* the cache holds and the pages that are being loaded at any time, and the
\* page after the last page of the cache when no load is pending.
Requested ==
  CacheKeys(pageCache) \cup {loading[i] : i \in 1..Len(loading)}
    \cup {p \in 1..MaxCachePages :
            /\ loading = << >>
            /\ \A k \in CacheKeys(pageCache) : k < p
            /\ p = 1 \/ CacheHas(pageCache, p - 1)}

\* An optimizer constructed with any of the configurations, its timer, and
\* calls of lazyLoadPage and optimizeDocumentProcessing that overlap.
InitCache ==
  /\ NewSession
  /\ \E override \in Overrides : NewPerformanceOptimizer(override)

NextCache ==
  \/ \E pageNumber \in Requested : LazyLoadPage(pageNumber)
  \/ \E i \in 1..Len(loading) :
       \E pageData \in PageData(loading[i]) : LoaderResolves(i, pageData)
  \/ \E i \in 1..MaxLoading : LoaderRejects(i)
  \/ \E pdfDocument \in PdfDocuments : OptimizeDocumentProcessing(pdfDocument)
  \/ OptimizeResume
  \/ PerformMemoryCleanup

SpecCache == InitCache /\ [][NextCache]_vars

(***************************************************************************)
(* Properties.  A step is recognised by lastCall, its effects are read    *)
(* from the fields and from what the step passed to the callbacks and     *)
(* promises.                                                               *)
(***************************************************************************)
Last(q) == q[Len(q)]

\* pageNumber is an integer within [1, totalPages].
InRange(pageNumber) ==
  /\ ~pageNumber.frac
  /\ pageNumber.n >= 1
  /\ pageNumber.n <= playbackState.totalPages

\* The pages after e whose mapping is not empty.
ContentAfter(e) == {q \in DOMAIN pageMap : q > e /\ ~pageMap[q].isEmpty}
Least(S) == CHOOSE x \in S : \A y \in S : x <= y

\* The page and the flag of every request of every timer.
Pending(tm) ==
  [h \in DOMAIN tm |->
     [k \in DOMAIN tm[h] |-> <<tm[h][k].pageNumber, tm[h][k].startPlayback>>]]

NavigateStep == lastCall'.op = "navigateToPage"
FireStep == lastCall'.op = "debounceFire"

C2_InvalidNavigationRejected ==
  [][(NavigateStep /\ ~InRange(lastCall'.pageNumber)) =>
       /\ settled' = {[pageNumber |-> lastCall'.pageNumber,
                       startPlayback |-> lastCall'.startPlayback,
                       value |-> FALSE, redirections |-> 0]}
       /\ playbackState' = playbackState
       /\ timers' = timers
       /\ debounceTimer' = debounceTimer
       /\ pageMap' = pageMap
       /\ sentenceToPageMap' = sentenceToPageMap
       /\ notified' = << >>
       /\ abandoned' = {}
    ]_vars

\* navigateToPage(totalPages + 1) was rejected while a timer was set.
C2_Witness ==
  /\ lastCall.op = "navigateToPage"
  /\ playbackState.totalPages >= 1
  /\ lastCall.pageNumber = Whole(playbackState.totalPages + 1)
  /\ \E s \in settled : s.value = FALSE
  /\ DOMAIN timers # {}

\* C3: empty-page redirection.  When the timer of a request for an empty
\* page e fires and r is the least page after e that is not empty, the
\* callback changes nothing and sets one timer, for r with the same
\* startPlayback, whose result it awaits; when the timer of a redirected
\* request fires it was redirected once, to that page r, which is applied,
\* and both promises resolve to true.
C3_EmptyPageRedirection ==
  [][/\ (/\ FireStep
         /\ lastCall'.pageNumber.n \in DOMAIN pageMap
         /\ pageMap[lastCall'.pageNumber.n].isEmpty
         /\ ContentAfter(lastCall'.pageNumber.n) # {}) =>
          /\ DOMAIN timers' = {debounceTimer'}
          /\ timers'[debounceTimer'] =
               Append(lastCall'.closure,
                      Request(Least(ContentAfter(lastCall'.pageNumber.n)),
                              lastCall'.startPlayback))
          /\ settled' = {}
          /\ playbackState' = playbackState
          /\ notified' = << >>
     /\ (FireStep /\ Len(lastCall'.closure) >= 2) =>
          LET c == lastCall'.closure
              e == c[Len(c) - 1].pageNumber
              r == c[Len(c)].pageNumber
          IN  /\ Len(c) = 2
              /\ e \in DOMAIN pageMap /\ pageMap[e].isEmpty
              /\ r \in DOMAIN pageMap
              /\ r = Least(ContentAfter(e))
              /\ settled' = {Outcome(c[1], TRUE, 1), Outcome(c[2], TRUE, 0)}
              /\ playbackState'.currentPage = r
              /\ playbackState'.currentSentenceIndex = pageMap[r].startSentenceIndex
              /\ playbackState'.currentCharIndex = pageMap[r].startCharIndex
    ]_vars

\* A request for an empty page resolved to true after one redirection.
C3_Witness ==
  /\ lastCall.op = "debounceFire"
  /\ \E s \in settled :
       /\ s.redirections = 1
       /\ s.value = TRUE
       /\ pageMap[s.pageNumber.n].isEmpty
       /\ playbackState.currentPage = Least(ContentAfter(s.pageNumber.n))

\* C4: when the timer of a request for an empty page fires and no later
\* page has content, the promise resolves to false, the playback state is
\* as before and nothing is notified.
C4_EmptyWithoutLaterContent ==
  [][(/\ FireStep
      /\ lastCall'.pageNumber.n \in DOMAIN pageMap
      /\ pageMap[lastCall'.pageNumber.n].isEmpty
      /\ ContentAfter(lastCall'.pageNumber.n) = {}) =>
       /\ settled' = {Outcome(lastCall'.closure[k], FALSE, Len(lastCall'.closure) - k) :
                        k \in DOMAIN lastCall'.closure}
       /\ playbackState' = playbackState
       /\ notified' = << >>
       /\ DOMAIN timers' = {}
    ]_vars

\* Such a request failed although an earlier page has content.
C4_Witness ==
  /\ lastCall.op = "debounceFire"
  /\ lastCall.pageNumber.n \in DOMAIN pageMap
  /\ pageMap[lastCall.pageNumber.n].isEmpty
  /\ \E q \in DOMAIN pageMap : q < lastCall.pageNumber.n /\ ~pageMap[q].isEmpty
  /\ \E s \in settled : s.pageNumber = lastCall.pageNumber /\ s.value = FALSE

\* C5: when the timer of a request for a page p that is not empty fires,
\* one step sets currentPage, currentSentenceIndex, currentCharIndex and
\* playbackPosition, sets isPlaying if startPlayback, leaves the other
\* fields, emits one notification with the new state and resolves to true.
C5_NavigationApplied ==
  [][(/\ FireStep
      /\ lastCall'.pageNumber.n \in DOMAIN pageMap
      /\ ~pageMap[lastCall'.pageNumber.n].isEmpty) =>
       LET p == lastCall'.pageNumber.n
       IN  /\ playbackState' =
                [currentPage |-> p,
                 currentSentenceIndex |-> pageMap[p].startSentenceIndex,
                 currentCharIndex |-> pageMap[p].startCharIndex,
                 totalPages |-> playbackState.totalPages,
                 totalSentences |-> playbackState.totalSentences,
                 isPlaying |-> (lastCall'.startPlayback \/ playbackState.isPlaying),
                 playbackPosition |-> [num |-> 0, den |-> 1]]
           /\ notified' = <<playbackState'>>
           /\ Outcome(Last(lastCall'.closure), TRUE, 0) \in settled'
           /\ \A s \in settled' : s.value = TRUE
    ]_vars

\* A request with startPlayback was applied to a page after the first
\* while narration was stopped within another page.
C5_Witness ==
  /\ lastCall.op = "debounceFire"
  /\ lastCall.startPlayback
  /\ notified = <<playbackState>>
  /\ playbackState.isPlaying
  /\ playbackState.currentPage = lastCall.pageNumber.n
  /\ playbackState.currentPage > 1
  /\ playbackState.currentSentenceIndex > 0
  /\ \E s \in settled : s.value = TRUE

(***************************************************************************)
(* The page mapper.  After initializePageMappings lastCall holds its      *)
(* arguments.                                                              *)
(***************************************************************************)
Indexed == lastCall.op = "initializePageMappings"
IndexedPages == lastCall.pdfPages
IndexedSentences == Len(lastCall.sentences)
Average == (IndexedSentences + IndexedPages - 1) \div IndexedPages
RangeOf(p) == pageMap[p].startSentenceIndex..pageMap[p].endSentenceIndex

\* C6: page coverage.  For P >= 1 pages and S > 0 sentences the page map
\* holds one mapping for each of the pages 1..P, a page whose range is
\* empty has isEmpty, and every sentence index below S lies in the range of
\* one page only, which is its entry in the sentence-to-page index.
C6_PageCoverage ==
  (Indexed /\ IndexedPages >= 1 /\ IndexedSentences > 0) =>
    /\ DOMAIN pageMap = 1..IndexedPages
    /\ \A p \in 1..IndexedPages :
         /\ pageMap[p].pageNumber = p
         /\ RangeOf(p) = {} => pageMap[p].isEmpty
    /\ DOMAIN sentenceToPageMap = 0..(IndexedSentences - 1)
    /\ \A i \in 0..(IndexedSentences - 1) :
         /\ Cardinality({p \in 1..IndexedPages : i \in RangeOf(p)}) = 1
         /\ i \in RangeOf(sentenceToPageMap[i])

\* Four sentences over three pages: the last page has an empty range.
C6_Witness ==
  /\ Indexed
  /\ IndexedPages = 3
  /\ IndexedSentences = 4
  /\ RangeOf(3) = {}
  /\ sentenceToPageMap[3] = 2

C8_BlockPartitionAsStated ==
  Indexed =>
    \A p \in 1..IndexedPages :
      /\ pageMap[p].startSentenceIndex = (p - 1) * Average
      /\ pageMap[p].endSentenceIndex = Min(p * Average, IndexedSentences) - 1

\* C8, amended: page p has the range [min((p-1)*avg, S), min(p*avg, S) - 1]
\* with avg = ceil(S / P).
C8_BlockPartition ==
  Indexed =>
    \A p \in 1..IndexedPages :
      /\ pageMap[p].startSentenceIndex = Min((p - 1) * Average, IndexedSentences)
      /\ pageMap[p].endSentenceIndex = Min(p * Average, IndexedSentences) - 1

\* The scenario: 95 sentences over 10 pages.
C8_Witness ==
  /\ Indexed
  /\ IndexedPages = 10
  /\ IndexedSentences = 95
  /\ Average = 10
  /\ \A p \in 1..9 : RangeOf(p) = (10 * (p - 1))..(10 * p - 1)
  /\ RangeOf(10) = 90..94
  /\ ~pageMap[10].isEmpty

(***************************************************************************)
(* Narration.                                                              *)
(***************************************************************************)
UpdateStep == lastCall'.op = "updateAudioPosition"

\* The effect C9 states for updateAudioPosition(i).
PositionSet(i) ==
  /\ i \in DOMAIN sentenceToPageMap
  /\ LET owner == sentenceToPageMap[i]
     IN  /\ owner \in DOMAIN pageMap
         /\ i \in RangeOf(owner)
         /\ playbackState' =
              [playbackState EXCEPT
                 !.currentPage = owner,
                 !.currentSentenceIndex = i,
                 !.playbackPosition =
                    Ratio(i - pageMap[owner].startSentenceIndex,
                          Max(1, Cardinality(RangeOf(owner))))]
  /\ notified' = <<playbackState'>>

\* C9: every updateAudioPosition(i) with 0 <= i < totalSentences sets
\* currentSentenceIndex, currentPage and playbackPosition as stated and
\* emits one state-change notification.
C9_PositionSet ==
  [][(/\ UpdateStep
      /\ lastCall'.sentenceIndex >= 0
      /\ lastCall'.sentenceIndex < playbackState.totalSentences) =>
       PositionSet(lastCall'.sentenceIndex)
    ]_vars

\* C10: updateAudioPosition(i) with i < 0 or i >= totalSentences changes no
\* field, notifies nothing and reports no error.
C10_OutOfRangeIgnored ==
  [][(/\ UpdateStep
      /\ \/ lastCall'.sentenceIndex < 0
         \/ lastCall'.sentenceIndex >= playbackState.totalSentences) =>
       /\ playbackState' = playbackState
       /\ notified' = << >>
       /\ reported' = << >>
       /\ pageMap' = pageMap
       /\ sentenceToPageMap' = sentenceToPageMap
       /\ timers' = timers
       /\ debounceTimer' = debounceTimer
    ]_vars

\* updateAudioPosition(totalSentences) was ignored in an indexed document
\* while narration was within a page.
C10_Witness ==
  /\ lastCall.op = "updateAudioPosition"
  /\ playbackState.totalSentences >= 1
  /\ lastCall.sentenceIndex = playbackState.totalSentences
  /\ pageMap # EmptyMap
  /\ playbackState.currentSentenceIndex > 0
  /\ notified = << >>

\* Sentence i is the only sentence of the page that owns it.
OnlySentenceOfItsPage(i) ==
  /\ i >= 0
  /\ i < playbackState.totalSentences
  /\ i \in DOMAIN sentenceToPageMap
  /\ sentenceToPageMap[i] \in DOMAIN pageMap
  /\ RangeOf(sentenceToPageMap[i]) = {i}

\* C11: progress bounds.  playbackPosition lies in [0, 1] in every state,
\* and updateAudioPosition(i) for the only sentence of its page leaves
\* playbackPosition at 0.
C11_ProgressBounds ==
  /\ [](/\ playbackState.playbackPosition.den > 0
        /\ playbackState.playbackPosition.num >= 0
        /\ playbackState.playbackPosition.num <= playbackState.playbackPosition.den)
  /\ [][(UpdateStep /\ OnlySentenceOfItsPage(lastCall'.sentenceIndex)) =>
          /\ playbackState'.currentSentenceIndex = lastCall'.sentenceIndex
          /\ playbackState'.playbackPosition = Zero
       ]_vars

\* Narration reached the second sentence, the only one of page 2.
C11_Witness ==
  /\ lastCall.op = "updateAudioPosition"
  /\ lastCall.sentenceIndex = 1
  /\ OnlySentenceOfItsPage(1)
  /\ playbackState.currentPage = 2
  /\ playbackState.currentSentenceIndex = 1
  /\ playbackState.playbackPosition = Zero

\* The mapping of the current page, when it exists and holds a sentence.
CurrentPageNonEmpty ==
  /\ playbackState.currentPage \in DOMAIN pageMap
  /\ \/ ~pageMap[playbackState.currentPage].isEmpty
     \/ RangeOf(playbackState.currentPage) # {}

\* C12: position-in-page invariant.  Whenever the current page is not
\* empty, currentSentenceIndex lies within the sentence range of the
\* current page.
C12_PositionInPage ==
  CurrentPageNonEmpty =>
    playbackState.currentSentenceIndex \in RangeOf(playbackState.currentPage)

\* A navigation to the blank page 1 was redirected to page 2 and applied
\* there, after narration had been at sentence 0.
C12_Witness ==
  /\ lastCall.op = "debounceFire"
  /\ Len(lastCall.closure) = 2
  /\ playbackState.totalSentences > 0
  /\ playbackState.currentPage = 2
  /\ CurrentPageNonEmpty
  /\ playbackState.currentSentenceIndex = 1

\* C13: in a document of P >= 1 pages and S >= 1 sentences currentPage
\* lies in 1..totalPages and currentSentenceIndex in 0..totalSentences - 1.
C13_PositionWithinDocument ==
  (playbackState.totalPages >= 1 /\ playbackState.totalSentences >= 1) =>
    /\ playbackState.currentPage >= 1
    /\ playbackState.currentPage <= playbackState.totalPages
    /\ playbackState.currentSentenceIndex >= 0
    /\ playbackState.currentSentenceIndex <= playbackState.totalSentences - 1

\* Playback was switched on at the last sentence of the last page.
C13_Witness ==
  /\ lastCall.op = "setPlaybackState"
  /\ playbackState.isPlaying
  /\ playbackState.totalPages = 2
  /\ playbackState.currentPage = playbackState.totalPages
  /\ playbackState.totalSentences = 2
  /\ playbackState.currentSentenceIndex = playbackState.totalSentences - 1

\* C14: whenever the current page is not empty, currentCharIndex lies
\* within the character range of the current page.
C14_CharIndexWithinPage ==
  (/\ playbackState.currentPage \in DOMAIN pageMap
   /\ ~pageMap[playbackState.currentPage].isEmpty) =>
    /\ pageMap[playbackState.currentPage].startCharIndex <= playbackState.currentCharIndex
    /\ playbackState.currentCharIndex <= pageMap[playbackState.currentPage].endCharIndex

DestroyStep == lastCall'.op = "destroy"

\* C15: cancellation by destroy.  destroy() leaves no timer pending and
\* changes no playback state; a callback that runs later belongs to a
\* request made after destroy(), so a request that was pending at destroy()
\* never changes the playback state and never notifies.
C15_CancelledByDestroy ==
  /\ [][DestroyStep =>
          /\ timers' = EmptyMap
          /\ playbackState' = playbackState
          /\ notified' = << >>
       ]_vars
  /\ [][FireStep =>
          \A k \in DOMAIN lastCall'.closure : ~lastCall'.closure[k].destroyed
       ]_vars

\* destroy() ran in the inner window of a redirect: the redirected request
\* and the request that awaits it were pending.
C15_Witness ==
  /\ lastCall.op = "destroy"
  /\ timers = EmptyMap
  /\ \E o \in abandoned : o.redirections = 1
  /\ \E o \in abandoned : o.redirections = 0 /\ o.pageNumber.n >= 2

\* The requests of the timers tm, as the promises they left pending.
LeftPending(tm) ==
  UNION {{[pageNumber |-> Whole(tm[h][k].pageNumber),
           startPlayback |-> tm[h][k].startPlayback,
           value |-> "pending",
           redirections |-> Len(tm[h]) - k] : k \in DOMAIN tm[h]} : h \in DOMAIN tm}

\* C16: a superseded request.  A valid navigateToPage that arrives while a
\* request is pending changes no playback state, notifies nothing and
\* resolves nothing, and leaves the promise of the pending request
\* unresolved; the callback of a superseded request never runs, so every
\* promise a callback resolves belongs to the request whose timer fired or
\* to a request that awaits it.
C16_SupersededRequest ==
  /\ [][(NavigateStep /\ InRange(lastCall'.pageNumber) /\ timers # EmptyMap) =>
          /\ playbackState' = playbackState
          /\ notified' = << >>
          /\ settled' = {}
          /\ abandoned' = LeftPending(timers)
          /\ \A h \in DOMAIN timers' : \A k \in DOMAIN timers'[h] :
               ~timers'[h][k].superseded
       ]_vars
  /\ [][FireStep =>
          /\ \A k \in DOMAIN lastCall'.closure : ~lastCall'.closure[k].superseded
          /\ \A o \in settled' :
               \E k \in DOMAIN lastCall'.closure :
                 /\ o.pageNumber = Whole(lastCall'.closure[k].pageNumber)
                 /\ o.startPlayback = lastCall'.closure[k].startPlayback
       ]_vars

\* A request for page 1 superseded the pending request for page 2, and the
\* playback state is still that of the constructor.
C16_Witness ==
  /\ lastCall.op = "navigateToPage"
  /\ lastCall.pageNumber = Whole(1)
  /\ \E o \in abandoned : o.pageNumber = Whole(2) /\ o.value = "pending"
  /\ ~pageMap[2].isEmpty
  /\ playbackState.currentPage = 1
  /\ notified = << >>
  /\ settled = {}

\* C17: uniform failure channel.  Every step in which a promise of
\* navigateToPage is resolved with false appends an error of type
\* PAGE_NAVIGATION_ERROR to the error log of the ErrorHandler.
C17_FailuresReachErrorLog ==
  [][(\E o \in settled' : o.value = FALSE) =>
       /\ errorLog' # errorLog
       /\ errorLog' # << >>
       /\ Last(errorLog').type = "PAGE_NAVIGATION_ERROR"
    ]_vars

(***************************************************************************)
(* The error handler.                                                      *)
(***************************************************************************)
HandleStep == lastCall'.op = "handleError"
ResumeStep == lastCall'.op = "handleErrorResume"

\* The last n elements of q, all of q when it has fewer.
LastN(q, n) ==
  LET kept == IF Len(q) < n THEN Len(q) ELSE n
  IN  [i \in 1..kept |-> q[Len(q) - kept + i]]

\* C18: bounded FIFO error log.  After n handleError calls the log holds
\* the errors of the last min(n, 100) calls in call order: every call
\* appends its error and evicts the oldest one from a full log, whatever
\* the outcome of recovery, and the end of a suspended call leaves the log
\* as it is.
C18_BoundedErrorLog ==
  /\ [](/\ Len(errorLog) = (IF clock < 100 THEN clock ELSE 100)
        /\ \A i \in DOMAIN errorLog :
             errorLog[i].timestamp = clock - Len(errorLog) + i)
  /\ [][/\ HandleStep =>
             /\ lastCall'.errorInfo.timestamp = clock + 1
             /\ errorLog' = LastN(Append(errorLog, lastCall'.errorInfo), 100)
        /\ ResumeStep => errorLog' = errorLog
       ]_vars

\* 101 errors were handled: the log holds the last 100, the first one is
\* evicted, and calls of each outcome are among them.
C18_Witness ==
  /\ clock = 101
  /\ Len(errorLog) = 100
  /\ errorLog[1].timestamp = 2
  /\ errorLog[100].timestamp = 101
  /\ lastCall.op = "handleErrorResume"
  /\ lastCall.errorInfo.timestamp = 101
  /\ \E i \in DOMAIN errorLog : ~errorLog[i].recoverable

\* The table of the taxonomy: severity and recoverability by type.
Taxonomy ==
  [type \in ErrorTypes |->
     CASE type = "PDF_LOAD_ERROR" -> <<"CRITICAL", FALSE>>
       [] type = "BROWSER_COMPATIBILITY_ERROR" -> <<"CRITICAL", FALSE>>
       [] type = "TEXT_EXTRACTION_ERROR" -> <<"HIGH", TRUE>>
       [] type = "AUDIO_SYNTHESIS_ERROR" -> <<"HIGH", TRUE>>
       [] type = "SYNCHRONIZATION_ERROR" -> <<"HIGH", TRUE>>
       [] type = "OCR_ERROR" -> <<"MEDIUM", TRUE>>
       [] type = "PAGE_NAVIGATION_ERROR" -> <<"MEDIUM", TRUE>>
       [] type = "PERFORMANCE_ERROR" -> <<"MEDIUM", TRUE>>
       [] type = "VALIDATION_ERROR" -> <<"LOW", TRUE>>
       [] type = "NETWORK_ERROR" -> <<"LOW", TRUE>>]

\* C19: static taxonomy.  The ErrorInfo that handleError builds, logs and
\* passes to onError has the severity and the recoverable flag of the table
\* for its type, whatever the message, the context and the details.
C19_StaticTaxonomy ==
  [][HandleStep =>
       LET errorInfo == lastCall'.errorInfo
       IN  /\ errorInfo.type \in ErrorTypes
           /\ errorInfo.severity = Taxonomy[errorInfo.type][1]
           /\ errorInfo.recoverable = Taxonomy[errorInfo.type][2]
           /\ Last(errorLog') = errorInfo
           /\ onErrorCalls' = <<errorInfo>>
    ]_vars

\* Two page navigation errors with different messages, contexts and
\* details were both rated MEDIUM and recoverable.
C19_Witness ==
  /\ lastCall.op = "handleError"
  /\ Len(errorLog) = 2
  /\ errorLog[1].type = "PAGE_NAVIGATION_ERROR"
  /\ errorLog[2].type = "PAGE_NAVIGATION_ERROR"
  /\ errorLog[1].message # errorLog[2].message
  /\ errorLog[1].context # errorLog[2].context
  /\ errorLog[1].details # errorLog[2].details
  /\ \A i \in 1..2 : errorLog[i].severity = "MEDIUM" /\ errorLog[i].recoverable

NotRecoverableTypes == {"PDF_LOAD_ERROR", "BROWSER_COMPATIBILITY_ERROR"}

\* C20: for PDF_LOAD_ERROR and BROWSER_COMPATIBILITY_ERROR handleError
\* returns false at once, runs no recovery action and is not suspended, so
\* onRecovery is called neither in the call nor later for it; the error is
\* appended to the log and passed once to onError.
C20_NotRecoverable ==
  [][/\ (HandleStep /\ lastCall'.errorInfo.type \in NotRecoverableTypes) =>
          /\ returned' = {[timestamp |-> lastCall'.errorInfo.timestamp, value |-> FALSE]}
          /\ lastCall'.actionsRun = << >>
          /\ onRecoveryCalls' = << >>
          /\ recovering' = recovering
          /\ errorLog' = Append(errorLog, lastCall'.errorInfo)
          /\ onErrorCalls' = <<lastCall'.errorInfo>>
     /\ \A k \in DOMAIN onRecoveryCalls' :
          onRecoveryCalls'[k].errorInfo.type \notin NotRecoverableTypes
    ]_vars

\* A browser compatibility error was returned as false while an earlier
\* call was suspended in recovery.
C20_Witness ==
  /\ lastCall.op = "handleError"
  /\ lastCall.errorInfo.type = "BROWSER_COMPATIBILITY_ERROR"
  /\ returned = {[timestamp |-> 2, value |-> FALSE]}
  /\ recovering # {}
  /\ Len(errorLog) = 2
  /\ onRecoveryCalls = << >>

RecoveryStep == lastCall'.op = "attemptRecovery"

\* The actions ran are the head of the strategy's list in list order, a
\* run ends with the first action that returns true and only there, and
\* the value is true exactly when it ended so.
OrderedRecovery(strategy, ran, value) ==
  LET actions == strategy.actions
  IN  /\ Len(ran) <= Len(actions)
      /\ \A i \in 1..Len(ran) : ran[i] = actions[i]
      /\ \A i \in 1..Len(ran) :
           IF ran[i].result = "true"
           THEN i = Len(ran) /\ value
           ELSE i < Len(actions) => i < Len(ran)
      /\ value => Len(ran) >= 1 /\ ran[Len(ran)].result = "true"
      /\ ~value => /\ ran = actions
                   /\ \A i \in 1..Len(actions) : actions[i].result # "true"

\* C21: attemptRecovery runs the recovery actions of the strategy one at a
\* time in list order; the first action that returns true ends the run
\* with true and no later action runs; an action that returns false or
\* throws is followed by the next one; the value is false only when every
\* action of the list has run and none succeeded.  handleError for a
\* recoverable type returns the value of attemptRecovery for the strategy
\* of the error.
C21_OrderedRecovery ==
  [][/\ RecoveryStep =>
          OrderedRecovery(lastCall'.strategy, lastCall'.actionsRun, lastCall'.value)
     /\ (HandleStep /\ lastCall'.errorInfo.recoverable) =>
          \E call \in recovering' \ recovering :
            /\ call.errorInfo = lastCall'.errorInfo
            /\ OrderedRecovery(getRecoveryStrategy(call.errorInfo),
                               lastCall'.actionsRun, call.success)
     /\ ResumeStep =>
          \E call \in recovering \ recovering' :
            /\ call.errorInfo = lastCall'.errorInfo
            /\ returned' = {[timestamp |-> call.errorInfo.timestamp,
                             value |-> call.success]}
    ]_vars

\* A strategy whose first action returned false and second threw was
\* recovered by its third, and a text extraction error that had already
\* used OCR was returned as not recovered after its one action ran.
C21_Witness ==
  /\ lastCall.op = "attemptRecovery"
  /\ Len(lastCall.strategy.actions) = 3
  /\ lastCall.strategy.actions[1].result = "false"
  /\ lastCall.strategy.actions[2].result = "throws"
  /\ Len(lastCall.actionsRun) = 3
  /\ lastCall.value
  /\ clock = 1
  /\ errorLog[1].type = "TEXT_EXTRACTION_ERROR"
  /\ returned = {[timestamp |-> 1, value |-> FALSE]}

\* C22: initializePageMappings with zero pages fails: a construction error
\* is reported, no state change is notified and the synchronizer does not
\* go on as after a successful initialization.
C22_ZeroPagesRejected ==
  (Indexed /\ IndexedPages = 0) => reported # << >> /\ notified = << >>

LoadStep == lastCall'.op = "initializePageMappings"

\* C23: after initializePageMappings has indexed a second document the
\* playback state refers to the new document: currentPage is one of its
\* pages and currentSentenceIndex one of its sentences, whatever position
\* had been reached in the previous document.
C23_ReloadResetsPlayback ==
  [][(LoadStep /\ playbackState.totalPages >= 1) =>
        /\ 1 <= playbackState'.currentPage
        /\ playbackState'.currentPage <= playbackState'.totalPages
        /\ 0 <= playbackState'.currentSentenceIndex
        /\ playbackState'.currentSentenceIndex <= playbackState'.totalSentences - 1
    ]_vars

SetStep == lastCall'.op = "setPlaybackState"

\* updateAudioPosition(i) completes: i is a sentence of the document that
\* the index maps to a page that has a mapping.
ValidUpdate(i) ==
  /\ 0 <= i
  /\ i < playbackState.totalSentences
  /\ i \in DOMAIN sentenceToPageMap
  /\ sentenceToPageMap[i] \in DOMAIN pageMap

\* C24: notifications follow the mutations.  Every completed mutation
\* (initializePageMappings, the callback of a navigateToPage that applies
\* its page, a valid updateAudioPosition, setPlaybackState) emits, before
\* the next operation starts, exactly one notification, the playback state
\* just after the mutation; an operation that fails or does nothing emits
\* none, and the playback state never changes without one.
C24_NotificationOrder ==
  [][/\ notified' \in {<< >>, <<playbackState'>>}
     /\ playbackState' # playbackState => notified' = <<playbackState'>>
     /\ (LoadStep \/ SetStep) => notified' = <<playbackState'>>
     /\ (NavigateStep \/ DestroyStep) => notified' = << >>
     /\ FireStep =>
          (notified' # << >> <=> \E r \in settled' : r.value = TRUE)
     /\ UpdateStep =>
          (notified' # << >> <=> ValidUpdate(lastCall'.sentenceIndex))
     /\ reported' # << >> => notified' = << >>
    ]_vars

\* In a document of two or more pages playback was started and then a
\* navigation to page 1 that does not start playback was applied: the last
\* notification is the state the callback left.
C24_Witness ==
  /\ lastCall.op = "debounceFire"
  /\ notified = <<playbackState>>
  /\ playbackState.isPlaying
  /\ playbackState.totalPages >= 2
  /\ playbackState.currentPage = 1
  /\ playbackState.currentSentenceIndex = 0
  /\ \E r \in settled : r.value = TRUE /\ ~r.startPlayback

Segmented == lastCall.op = "segment"

\* The least position from which on the strings of q occur in the text one
\* after the other without overlap, or 0 when they do not.
RECURSIVE OccurInOrder(_, _, _)
OccurInOrder(text, q, from) ==
  IF q = << >> THEN TRUE
  ELSE LET s == Head(q)
           at == {i \in from..(Len(text) - Len(s) + 1) : SubSeq(text, i, i + Len(s) - 1) = s}
       IN  /\ at # {}
           /\ OccurInOrder(text, Tail(q), (CHOOSE i \in at : \A k \in at : i <= k) + Len(s))

\* A candidate that is not a narration unit: empty, without a letter, or
\* of one token.
Noise(candidate) ==
  \/ candidate = << >>
  \/ \A i \in 1..Len(candidate) : candidate[i] \notin Letters
  \/ \A i \in 1..Len(candidate) : candidate[i] # SP

\* C25: every sentence of the segmenter output is not empty and has no
\* whitespace at its ends, contains a letter and has two or more tokens
\* separated by spaces; the sentences occur in the text in the order of the
\* output; a text that is empty, or whose candidates are all noise, gives
\* no sentence.
C25_SegmenterFilter ==
  Segmented =>
    LET text == lastCall.fullText
        out == lastCall.sentenceArray
    IN  /\ \A k \in 1..Len(out) :
             /\ Len(out[k]) > 0
             /\ out[k][1] \notin Whitespace
             /\ out[k][Len(out[k])] \notin Whitespace
             /\ \E i \in 1..Len(out[k]) : out[k][i] \in Letters
             /\ \E i \in 2..(Len(out[k]) - 1) : out[k][i] = SP
        /\ OccurInOrder(text, out, 1)
        /\ text = << >> => out = << >>
        /\ (\A i \in 1..Len(text) : text[i] \notin Letters) => out = << >>
        /\ (\A i \in 1..Len(text) : text[i] # SP) => out = << >>
        /\ (\A k \in 1..Len(Candidates(text)) : Noise(Candidates(text)[k])) => out = << >>

\* A text of two sentences of two words, the second set off by an
\* uppercase letter without a space: the two are the output, in their order.
C25_Witness ==
  /\ Segmented
  /\ Len(lastCall.sentenceArray) = 2
  /\ lastCall.sentenceArray[1] # lastCall.sentenceArray[2]
  /\ \E i \in 1..(Len(lastCall.fullText) - 1) :
       lastCall.fullText[i] \in Terminators /\ lastCall.fullText[i + 1] \in Uppercase

\* The document index: the totals, the page mappings and the
\* sentence-to-page index.
DocumentIndex ==
  <<playbackState.totalPages, playbackState.totalSentences, pageMap, sentenceToPageMap>>

\* C26: navigateToPage (the call and its timer callback), updateAudioPosition
\* and setPlaybackState never change totalPages, totalSentences, a
\* PageMapping or the sentence-to-page index; a step that changes one of
\* them is initializePageMappings or destroy.
C26_IndexFrame ==
  [][/\ (NavigateStep \/ FireStep \/ UpdateStep \/ SetStep) => DocumentIndex' = DocumentIndex
     /\ DocumentIndex' # DocumentIndex => (LoadStep \/ DestroyStep)
    ]_vars

\* In a document of MaxPages pages a navigation to page 2 was applied and
\* started playback; the index is that of the document.
C26_Witness ==
  /\ lastCall.op = "debounceFire"
  /\ notified # << >>
  /\ playbackState.currentPage = 2
  /\ playbackState.isPlaying
  /\ playbackState.totalPages = MaxPages
  /\ playbackState.totalSentences = MaxSentences
  /\ DOMAIN pageMap = 1..MaxPages
  /\ DOMAIN sentenceToPageMap = 0..(MaxSentences - 1)

\* navigateToPage(pageNumber, startPlayback) has just returned its promise.
Called(pageNumber, startPlayback) ==
  /\ lastCall.op = "navigateToPage"
  /\ lastCall.pageNumber = pageNumber
  /\ lastCall.startPlayback = startPlayback

\* The promise of a call navigateToPage(pageNumber, startPlayback) has just
\* been resolved with true or false.
Settles(pageNumber, startPlayback) ==
  \E r \in settled :
    /\ r.pageNumber = pageNumber
    /\ r.startPlayback = startPlayback
    /\ r.value \in BOOLEAN

\* C27: when timers fire, every call of navigateToPage is followed by the
\* resolution, with true or false, of the promise of a call with its
\* arguments, also when a later request or destroy() comes before its
\* timer fires.
C27_EveryCallSettles ==
  \A pageNumber \in PageNumbers, startPlayback \in BOOLEAN :
    Called(pageNumber, startPlayback) ~> Settles(pageNumber, startPlayback)

\* The step before was a navigateToPage with an invalid page number, made
\* while a request was pending.
InvalidWhilePending ==
  /\ lastCall.op = "navigateToPage"
  /\ ~InRange(lastCall.pageNumber)
  /\ debounceTimer \in DOMAIN timers

\* C28 as stated: an invalid request made while a valid request for page p
\* is pending returns false at once and leaves the timer of p alone, and
\* when that timer fires p is applied: currentPage is p and the promise
\* resolves to true.
C28_InvalidDoesNotDisturbAsStated ==
  [][(InvalidWhilePending /\ FireStep) =>
       /\ playbackState'.currentPage = lastCall'.pageNumber.n
       /\ Outcome(Last(lastCall'.closure), TRUE, 0) \in settled'
    ]_vars

\* C28: an invalid request made while a valid request for page p is
\* pending returns false at once and changes neither the timers nor the
\* playback state nor the index, so the pending request goes on as without
\* it: when its timer fires next and p has a mapping that is not empty, p
\* is applied, currentPage is p and the promise resolves to true.
C28_InvalidDoesNotDisturb ==
  [][/\ (NavigateStep /\ ~InRange(lastCall'.pageNumber) /\ debounceTimer \in DOMAIN timers) =>
          /\ settled' = {[pageNumber |-> lastCall'.pageNumber,
                          startPlayback |-> lastCall'.startPlayback,
                          value |-> FALSE, redirections |-> 0]}
          /\ timers' = timers
          /\ debounceTimer' = debounceTimer
          /\ abandoned' = {}
          /\ playbackState' = playbackState
          /\ DocumentIndex' = DocumentIndex
     /\ (/\ InvalidWhilePending
         /\ FireStep
         /\ lastCall'.pageNumber.n \in DOMAIN pageMap
         /\ ~pageMap[lastCall'.pageNumber.n].isEmpty) =>
          /\ lastCall'.closure = timers[debounceTimer]
          /\ playbackState'.currentPage = lastCall'.pageNumber.n
          /\ notified' = <<playbackState'>>
          /\ Outcome(Last(lastCall'.closure), TRUE, 0) \in settled'
          /\ \A r \in settled' : r.value = TRUE
    ]_vars

\* navigateToPage(0) has been rejected while the timer of a request for
\* page 2, which has content and is not the current page, is set.
C28_Witness ==
  /\ InvalidWhilePending
  /\ lastCall.pageNumber = Whole(0)
  /\ settled = {[pageNumber |-> Whole(0), startPlayback |-> lastCall.startPlayback,
                 value |-> FALSE, redirections |-> 0]}
  /\ Last(timers[debounceTimer]).pageNumber = 2
  /\ 2 \in DOMAIN pageMap
  /\ ~pageMap[2].isEmpty
  /\ playbackState.currentPage = 1

\* The pages of the redirections that the last step cancelled: the page r
\* of a recursive call whose timer was cleared while the callback of a
\* request for an empty page awaited it.
CancelledRedirections ==
  {a.pageNumber.n : a \in {b \in abandoned :
      b.redirections = 0 /\ \E c \in abandoned : c.redirections >= 1}}

\* The step before was a valid navigateToPage that cancelled a redirection.
RedirectionSuperseded ==
  /\ lastCall.op = "navigateToPage"
  /\ InRange(lastCall.pageNumber)
  /\ CancelledRedirections # {}

C30_StaleRequestDiscarded ==
  [][(FireStep /\ Last(lastCall'.closure).reloaded) =>
       /\ playbackState' = playbackState
       /\ notified' = << >>
    ]_vars

\* The callback of a navigateToPage applied its page.
Applied == FireStep /\ \E r \in settled' : r.value = TRUE

\* C31: isPlaying changes only in setPlaybackState, which assigns its
\* argument, and in the callback of a navigateToPage with startPlayback
\* that applies its page, which sets it to true; an applied navigateToPage
\* without startPlayback keeps the value, and updateAudioPosition, a
\* navigateToPage call, a callback that fails or is redirected and a
\* request that is superseded never change it.
C31_IsPlayingFrame ==
  [][/\ playbackState'.isPlaying # playbackState.isPlaying =>
          \/ SetStep
          \/ Applied /\ lastCall'.startPlayback /\ playbackState'.isPlaying
     /\ SetStep => playbackState'.isPlaying = lastCall'.isPlaying
     /\ (Applied /\ lastCall'.startPlayback) => playbackState'.isPlaying
     /\ (Applied /\ ~lastCall'.startPlayback) =>
          playbackState'.isPlaying = playbackState.isPlaying
     /\ (FireStep /\ ~Applied) => playbackState'.isPlaying = playbackState.isPlaying
     /\ (UpdateStep \/ NavigateStep) =>
          playbackState'.isPlaying = playbackState.isPlaying
    ]_vars

\* While playing, a navigation to page 2 without startPlayback was
\* applied and playback goes on.
C31_Witness ==
  /\ lastCall.op = "debounceFire"
  /\ ~lastCall.startPlayback
  /\ lastCall.pageNumber = Whole(2)
  /\ notified = <<playbackState>>
  /\ playbackState.currentPage = 2
  /\ playbackState.isPlaying

\* The empty pages of the map are its last pages.
EmptySuffix ==
  \A p \in DOMAIN pageMap, q \in DOMAIN pageMap :
    (pageMap[p].isEmpty /\ q > p) => pageMap[q].isEmpty

\* No sentence of the list is blank.
NonBlank(sentences) ==
  \A i \in 1..Len(sentences) : Trim(sentences[i]) # << >>

\* C32: when no sentence is blank the empty pages that
\* initializePageMappings builds are the last pages of the document; on a
\* map whose empty pages are its last pages the callback of a request for
\* an empty page finds no page to redirect to: it sets no timer, changes
\* nothing and resolves to false.
C32_EmptyPagesSuffix ==
  /\ []((Indexed /\ NonBlank(lastCall.sentences)) => EmptySuffix)
  /\ [][(/\ FireStep
         /\ EmptySuffix
         /\ lastCall'.pageNumber.n \in DOMAIN pageMap
         /\ pageMap[lastCall'.pageNumber.n].isEmpty) =>
          /\ settled' = Resolved(lastCall'.closure, FALSE)
          /\ timers' = << >>
          /\ playbackState' = playbackState
          /\ notified' = << >>
          /\ reported' = <<EmptyNoContent(lastCall'.pageNumber.n)>>
       ]_vars

\* In a document of three pages and one sentence, which is not blank, the
\* callback of a request for page 2 found pages 2 and 3 empty and resolved
\* to false.
C32_Witness ==
  /\ lastCall.op = "debounceFire"
  /\ lastCall.pageNumber = Whole(2)
  /\ DOMAIN pageMap = 1..3
  /\ ~pageMap[1].isEmpty
  /\ pageMap[2].isEmpty
  /\ pageMap[3].isEmpty
  /\ playbackState.totalSentences = 1
  /\ settled = Resolved(lastCall.closure, FALSE)

\* A document with pages and without sentences is indexed.
NoSentences ==
  /\ playbackState.totalPages >= 1
  /\ playbackState.totalSentences = 0
  /\ DOMAIN pageMap = 1..playbackState.totalPages

\* C33: initializePageMappings with P >= 1 pages and no sentence reports
\* no error and builds P mappings, each empty with the sentence range
\* [0, -1], and no entry of the sentence index; on that document a request
\* for a page in 1..P is accepted and its callback resolves to false
\* without a change, and updateAudioPosition changes nothing.
C33_NoSentencesIsNoError ==
  /\ []((Indexed /\ IndexedPages >= 1 /\ IndexedSentences = 0) =>
          /\ reported = << >>
          /\ notified = <<playbackState>>
          /\ NoSentences
          /\ sentenceToPageMap = EmptyMap
          /\ \A p \in 1..IndexedPages :
               /\ pageMap[p].isEmpty
               /\ pageMap[p].startSentenceIndex = 0
               /\ pageMap[p].endSentenceIndex = -1)
  /\ [][NoSentences =>
          /\ (NavigateStep /\ InRange(lastCall'.pageNumber)) =>
               /\ settled' = {}
               /\ playbackState' = playbackState
          /\ FireStep =>
               /\ settled' = Resolved(lastCall'.closure, FALSE)
               /\ playbackState' = playbackState
               /\ notified' = << >>
          /\ UpdateStep =>
               /\ playbackState' = playbackState
               /\ notified' = << >>
       ]_vars

\* In a document of MaxPages pages without sentences the callback of a
\* request for page 1 resolved to false.
C33_Witness ==
  /\ NoSentences
  /\ playbackState.totalPages = MaxPages
  /\ lastCall.op = "debounceFire"
  /\ lastCall.pageNumber = Whole(1)
  /\ settled = Resolved(lastCall.closure, FALSE)
  /\ reported = <<EmptyNoContent(1)>>

\* C34: in every state reached by initializePageMappings, navigateToPage,
\* updateAudioPosition and setPlaybackState, calculatePageProgress()
\* returns the stored playbackPosition, a value in [0, 1].
C34_ProgressAgrees ==
  /\ calculatePageProgress = playbackState.playbackPosition
  /\ calculatePageProgress.num >= 0
  /\ calculatePageProgress.num <= calculatePageProgress.den

\* C35: for a document of P >= 1 pages and S >= 1 sentences the page the
\* PDF reader estimates for sentence i, min(P, ceil((i + 1) / ceil(S / P))),
\* is the page the sentence index of the synchronizer holds for i, for
\* every i in [0, S).
C35_EstimatorsAgree ==
  (Indexed /\ IndexedPages >= 1 /\ IndexedSentences >= 1) =>
    \A i \in 0..(IndexedSentences - 1) :
      /\ i \in DOMAIN sentenceToPageMap
      /\ sentenceToPageMap[i] = estimatedPage(i, IndexedSentences, IndexedPages)

\* A document whose sentences do not fill its pages evenly: 4 pages and 6
\* sentences, the last of them on page 3.
C35_Witness ==
  /\ Indexed
  /\ IndexedPages = 4
  /\ IndexedSentences = 6
  /\ sentenceToPageMap[5] = 3
  /\ sentenceToPageMap[2] = 2

\* The timestamps of the log, in log order.
LoggedCalls == [i \in DOMAIN errorLog |-> errorLog[i].timestamp]

\* C36: overlapping handleError calls lose nothing and keep call order.  A
\* call is in the log when it is suspended, so at every step the log is
\* the errors of the last min(n, 100) of the n calls started, in the order
\* in which they were started, also those of calls that are still
\* suspended, and it never holds more than 100 entries; the end of a
\* suspended call changes neither the log nor the other suspended calls.
C36_InterleavedReports ==
  /\ [](/\ Len(errorLog) <= 100
        /\ LoggedCalls = [i \in 1..(IF clock < 100 THEN clock ELSE 100) |->
                            clock - (IF clock < 100 THEN clock ELSE 100) + i]
        /\ \A call \in recovering :
             call.errorInfo.timestamp > clock - 100 =>
               \E i \in DOMAIN errorLog : errorLog[i] = call.errorInfo)
  /\ [][/\ (HandleStep /\ recovering # {}) =>
             /\ errorLog'[Len(errorLog')] = lastCall'.errorInfo
             /\ recovering \subseteq recovering'
             /\ \A i \in 1..(Len(errorLog') - 1) :
                  errorLog'[i] = errorLog[Len(errorLog) - (Len(errorLog') - 1) + i]
        /\ ResumeStep =>
             /\ errorLog' = errorLog
             /\ recovering' = recovering \ {c \in recovering : c.errorInfo = lastCall'.errorInfo}
       ]_vars

\* Calls 101 and 102 are both suspended in recovery; the log is full and
\* holds calls 3 to 102, the two suspended ones last.
C36_Witness ==
  /\ clock = 102
  /\ Cardinality(recovering) = 2
  /\ \A call \in recovering : call.errorInfo.timestamp \in {101, 102}
  /\ Len(errorLog) = 100
  /\ errorLog[1].timestamp = 3
  /\ lastCall.op = "handleError"

\* The extraction method in the details of the error is 'ocr'.
UsedOCR(errorInfo) ==
  /\ "extractionMethod" \in DOMAIN errorInfo.details
  /\ errorInfo.details.extractionMethod = "ocr"

\* The two cases in which handleError returns true.
Recovers(errorInfo) ==
  \/ errorInfo.type = "AUDIO_SYNTHESIS_ERROR"
  \/ errorInfo.type = "TEXT_EXTRACTION_ERROR" /\ ~UsedOCR(errorInfo)

\* C37 as stated: for every input other than an audio synthesis error and
\* a text extraction error whose extraction method is not 'ocr',
\* handleError runs no recovery action.
C37_TwoRecoveriesAsStated ==
  [][(HandleStep /\ ~Recovers(lastCall'.errorInfo)) => lastCall'.actionsRun = << >>]_vars

\* C37: handleError returns true exactly for an audio synthesis error and
\* for a text extraction error whose extraction method is not 'ocr', after
\* the one action of the strategy has run.  For a text extraction error
\* whose extraction method is 'ocr' the one action runs, fails, and false
\* is returned; for every other type, recoverable or not, no action runs
\* and false is returned.
C37_TwoRecoveries ==
  [][/\ HandleStep =>
          LET errorInfo == lastCall'.errorInfo
          IN  /\ Len(lastCall'.actionsRun) =
                   (IF errorInfo.type \in {"AUDIO_SYNTHESIS_ERROR", "TEXT_EXTRACTION_ERROR"}
                    THEN 1 ELSE 0)
              /\ IF errorInfo.recoverable
                 THEN /\ returned' = {}
                      /\ recovering' = recovering \cup
                           {[errorInfo |-> errorInfo, success |-> Recovers(errorInfo)]}
                 ELSE /\ returned' = {[timestamp |-> errorInfo.timestamp, value |-> FALSE]}
                      /\ ~Recovers(errorInfo)
                      /\ recovering' = recovering
     /\ ResumeStep =>
          returned' = {[timestamp |-> lastCall'.errorInfo.timestamp,
                        value |-> Recovers(lastCall'.errorInfo)]}
    ]_vars

\* A text extraction error without details was returned as recovered
\* after an OCR error, which is recoverable by its flag, was logged.
C37_Witness ==
  /\ lastCall.op = "handleErrorResume"
  /\ lastCall.errorInfo.type = "TEXT_EXTRACTION_ERROR"
  /\ ~UsedOCR(lastCall.errorInfo)
  /\ returned = {[timestamp |-> 2, value |-> TRUE]}
  /\ errorLog[1].type = "OCR_ERROR"
  /\ errorLog[1].recoverable
  /\ recovering = {}

\* The steps of the page cache: the rest of lazyLoadPage after the loader
\* resolved, and a lazyLoadPage call for a page the cache holds.
StoreStep == lastCall'.op = "loaderResolved"
CacheHitStep ==
  /\ lastCall'.op = "lazyLoadPage"
  /\ CacheHas(pageCache, lastCall'.pageNumber)
CacheWithinLimit == Len(pageCache) <= config.maxPagesInMemory
CacheFull == Len(pageCache) >= config.maxPagesInMemory

\* A page that the cache does not hold and that is stored in a full cache
\* takes the place of the first entry, and nothing else changes.
EvictsOldest ==
  StoreStep /\ CacheFull /\ ~CacheHas(pageCache, lastCall'.pageNumber)
    => pageCache' = Append(Tail(pageCache),
                           [key |-> lastCall'.pageNumber,
                            value |-> lastCall'.returned])

\* A hit returns the value of the entry, starts no load and leaves the
\* cache as it is.
HitReturnsStored ==
  CacheHitStep
    => /\ lastCall'.returned = CacheGet(pageCache, lastCall'.pageNumber)
       /\ loading' = loading
       /\ pageCache' = pageCache

\* C38: whatever lazyLoadPage and optimizeDocumentProcessing calls were
\* made on an optimizer constructed with maxPagesInMemory >= 1, the cache
\* holds at most config.maxPagesInMemory pages; a page loaded into a full
\* cache evicts exactly the oldest-inserted entry; a cache hit returns the
\* stored value and does not call the loader.
C38_PageCacheBound ==
  /\ []CacheWithinLimit
  /\ [][EvictsOldest]_vars
  /\ [][HitReturnsStored]_vars

TimersOk == DOMAIN timers \subseteq {debounceTimer}

====
